---- MODULE Spec2Model ----
(***************************************************************************)
(* gh-dl: the discovery -> download -> archive pipeline.                   *)
(*                                                                         *)
(* main (src/unnamed/part_002) seeds a sync.WaitGroup with one unit per    *)
(* name token, sends one query per valid token on the queries channel and  *)
(* waits for the WaitGroup.  consumeQueries/queryOwner/discoverRepos       *)
(* (src/unnamed/part_000) turn queries into dl descriptors on the dls      *)
(* channel; consumeDls/download (src/dl.go) clone them.  After wg.Wait()   *)
(* main closes the channels, prints the totals, archives and cleans up.    *)
(*                                                                         *)
(* Strings are sequences of one-character strings so that strings.Split    *)
(* is computed, not assumed.                                               *)
(***************************************************************************)
EXTENDS Integers, Sequences, FiniteSets, TLC

\* ---------------------------------------------------------------- bounds
\* Longest list of name tokens given on the command line.
MaxArgs == 2
\* Most pages the API serves for one owner's listing.
MaxPages == 2
\* Most repositories the API returns on one page.
MaxPerPage == 2
\* Most repositories the API lists in one run, over all owners.
MaxRepos == 2

\* ------------------------------------------------------ program constants
\* Capacity of the dls channel.
dlBacklog == 100

\* ---------------------------------------------------------------- strings
SLASH == "/"

\* The name tokens a run may be given.
ArgTokens ==
  { <<"a">>,
    <<"a", "/", "r">>,
    <<"a", "/", "r", "/", "x">> }

\* The values of the -x flag's exclusion map a run may have.
ExcludeSets == { {}, { <<"a", "/", "s">> } }

\* Names of the repositories an owner's listing returns, in listing order.
RepoNames == <<"s", "r", "t", "u", "v", "w", "x", "y", "z">>

RECURSIVE SplitFrom(_, _, _)
\* strings.Split(s, "/"): cur is the segment being read, acc the segments
\* already closed.  Always returns at least one segment.
SplitFrom(s, cur, acc) ==
  IF s = <<>> THEN Append(acc, cur)
  ELSE IF Head(s) = SLASH THEN SplitFrom(Tail(s), <<>>, Append(acc, cur))
  ELSE SplitFrom(Tail(s), Append(cur, Head(s)), acc)

Split(s) == SplitFrom(s, <<>>, <<>>)

\* filepath-independent "owner/name" as GitHub's full_name.
FullNameOf(owner, name) == owner \o <<SLASH>> \o name

\* ------------------------------------------------------------------ state
VARIABLES
  args,        \* flag.Args()
  excluded,    \* the excluded map (set of full names)
  mainPc,      \* position of main
  argIdx,      \* index of the next token main's range loop handles
  wg,          \* the WaitGroup counter
  queries,     \* the queries channel (token indexes of the queued queries)
  dls,         \* the dls channel (ids of the queued descriptors)
  task,        \* per token: its queryOwner/discoverRepos goroutine
  dl,          \* per descriptor id: state of its consumeDls/download handling
  total,       \* stat counter total
  successful,  \* stat counter successful
  listed,      \* repositories the API has returned so far, over all owners
  reported,    \* the "downloaded S/T repos" line main printed
  err,         \* main's err
  archiveCalls,\* number of calls of archive(base, name)
  archiveFile, \* whether the output archive file exists
  baseRemoved, \* whether os.RemoveAll(base) ran
  exitCode,    \* process exit status, -1 while running
  errLog,      \* errors sent on msgs
  rel,         \* per descriptor id: wg.Done() calls made for it
  taskRel,     \* per token: wg.Done() calls made by its own task
  dlw,         \* download() in detail: flags, counters, clones, directories
  arw,         \* archive() in detail: the tree under base, the tar entries
  pgw,         \* the page loop of the hand-written discoverRepos
  pcw,         \* the consumers of one queue in detail: their sleeps, launches
  qw,          \* the two queues in detail: contents, senders, receivers
  cnw          \* the consumer goroutines of both queues, one by one

\* The state of the detailed views; the pipeline leaves it alone.
detail == << dlw, arw, pgw, pcw, qw, cnw >>

\* The state of the pipeline: main, the two channels and their consumers.
pipeline == << args, excluded, mainPc, argIdx, wg, queries, dls, task, dl,
               total, successful, listed, reported, err, archiveCalls,
               archiveFile, baseRemoved, exitCode, errLog, rel, taskRel >>

vars == << pipeline, detail >>

\* Token indexes and descriptor ids.  A descriptor is named by the token
\* whose task produced it and its ordinal among that task's descriptors.
Toks == 1..Len(args)
MaxPerTok == MaxPages * MaxPerPage
DlIds == Toks \X (1..MaxPerTok)

\* flag.Args(): the name tokens of the command line, possibly none.
ArgLists == UNION { [1..n -> ArgTokens] : n \in 0..MaxArgs }

\* The process is alive: neither main has left nor log.Fatal has run.
Running == exitCode = -1

\* Full name of descriptor id: *repo.FullName of the looked-up repository
\* for a repo query, the k-th listed repository's for a user query.
FullName(id) ==
  LET i == id[1]
      s == Split(args[i])
  IN IF Len(s) = 2 THEN FullNameOf(s[1], s[2])
     ELSE FullNameOf(s[1], <<RepoNames[id[2]]>>)

PipelineInit ==
  /\ args \in ArgLists
  /\ excluded \in ExcludeSets
  /\ mainPc = "setup"
  /\ argIdx = 1
  /\ wg = 0
  /\ queries = <<>>
  /\ dls = <<>>
  /\ task = [i \in Toks |->
              [pc |-> "none", page |-> 0, next |-> 0, count |-> 0, sent |-> 0]]
  /\ dl = [id \in DlIds |-> "none"]
  /\ total = 0
  /\ successful = 0
  /\ listed = 0
  /\ reported = <<>>
  /\ err = "nil"
  /\ archiveCalls = 0
  /\ archiveFile = FALSE
  /\ baseRemoved = FALSE
  /\ exitCode = -1
  /\ errLog = {}
  /\ rel = [id \in DlIds |-> 0]
  /\ taskRel = [i \in Toks |-> 0]

\* The detailed views are at rest: no clone, no archive, no listing under
\* way.
Init ==
  /\ PipelineInit
  /\ dlw = [pc |-> "idle"]
  /\ arw = [pc |-> "idle"]
  /\ pgw = [pc |-> "idle"]
  /\ pcw = [pc |-> "idle"]
  /\ qw = [pc |-> "idle"]
  /\ cnw = [pc |-> "idle"]

\* The pipeline at its start for the single token "a", left untouched while
\* one of the detailed views runs.
PipelineParked == PipelineInit /\ args = << <<"a">> >> /\ excluded = {}


\* An error value sent on msgs: what failed, for which token (and which of
\* its descriptors, 0 when none), and the kind of the error.
ErrEntry(what, i, k, why) == [what |-> what, tok |-> i, ord |-> k, why |-> why]

\* ------------------------------------------------------------------- main
\* query.kind of token i; only asked of tokens with one or two segments.
KindOf(i) == IF Len(Split(args[i])) = 1 THEN "queryUser" ELSE "queryRepo"

\* The range loop of main has handled token argIdx.
NextArg ==
  /\ argIdx' = argIdx + 1
  /\ mainPc' = IF argIdx = Len(args) THEN "wait" ELSE "dispatch"

\* main after flag.Parse(): log.Fatal when -q and -v are both given, when
\* there is no name token, or when ioutil.TempDir fails; otherwise the
\* working directory base exists and main goes on to the msgs channel, its
\* printer and the client.
MainSetup ==
  /\ Running /\ mainPc = "setup"
  /\ \E quiet, verbose \in BOOLEAN, tmp \in {"ok", "err"} :
       IF (quiet /\ verbose) \/ Len(args) = 0 \/ tmp = "err"
       THEN exitCode' = 1 /\ mainPc' = mainPc
       ELSE exitCode' = exitCode /\ mainPc' = "client"
  /\ UNCHANGED << detail, args, excluded, argIdx, wg, queries, dls, task, dl,
                  total, successful, listed, reported, err, archiveCalls,
                  archiveFile, baseRemoved, errLog, rel, taskRel >>

\* if auth { ...term.ReadPassword(...); if err != nil { log.Fatal(err) } }:
\* with -a a token that cannot be read ends the process; otherwise the
\* client is made, the two channels are made and the consumers started.
MainClient ==
  /\ Running /\ mainPc = "client"
  /\ \E auth \in BOOLEAN, pw \in {"ok", "err"} :
       IF auth /\ pw = "err"
       THEN exitCode' = 1 /\ mainPc' = mainPc
       ELSE exitCode' = exitCode /\ mainPc' = "add"
  /\ UNCHANGED << detail, args, excluded, argIdx, wg, queries, dls, task, dl,
                  total, successful, listed, reported, err, archiveCalls,
                  archiveFile, baseRemoved, errLog, rel, taskRel >>

\* wg.Add(flag.NArg())
MainAdd ==
  /\ Running /\ mainPc = "add"
  /\ wg' = wg + Len(args)
  /\ mainPc' = "dispatch"
  /\ UNCHANGED << detail, args, excluded, argIdx, queries, dls, task, dl,
                  total, successful, listed, reported, err, archiveCalls,
                  archiveFile, baseRemoved, exitCode, errLog, rel, taskRel >>

\* case 1, case 2: queries <- query{...}.  The channel's capacity is
\* flag.NArg(), so the send never blocks.
MainSendQuery ==
  /\ Running /\ mainPc = "dispatch"
  /\ Len(Split(args[argIdx])) \in {1, 2}
  /\ Len(queries) < Len(args)
  /\ queries' = Append(queries, argIdx)
  /\ task' = [task EXCEPT ![argIdx].pc = "queued"]
  /\ NextArg
  /\ UNCHANGED << detail, args, excluded, wg, dls, dl, total, successful,
                  listed, reported, err, archiveCalls, archiveFile,
                  baseRemoved, exitCode, errLog, rel, taskRel >>

\* MainReject with the wg.Done() of the default case left out.
MainReject_NoDone ==
  /\ Running /\ mainPc = "dispatch"
  /\ Len(Split(args[argIdx])) \notin {1, 2}
  /\ errLog' = errLog \cup { ErrEntry("arg", argIdx, 0, "invalid") }
  /\ task' = [task EXCEPT ![argIdx].pc = "rejected"]
  /\ NextArg
  /\ UNCHANGED << detail, args, excluded, wg, queries, dls, dl, total, successful,
                  listed, reported, err, archiveCalls, archiveFile,
                  baseRemoved, exitCode, rel, taskRel >>

\* default: msgs <- fmt.Errorf("arg %s invalid", arg); wg.Done()
MainReject ==
  /\ Running /\ mainPc = "dispatch"
  /\ Len(Split(args[argIdx])) \notin {1, 2}
  /\ errLog' = errLog \cup { ErrEntry("arg", argIdx, 0, "invalid") }
  /\ wg' = wg - 1
  /\ taskRel' = [taskRel EXCEPT ![argIdx] = @ + 1]
  /\ task' = [task EXCEPT ![argIdx].pc = "rejected"]
  /\ NextArg
  /\ UNCHANGED << detail, args, excluded, queries, dls, dl, total,
                  successful, listed, reported, err, archiveCalls,
                  archiveFile, baseRemoved, exitCode, rel >>

\* wg.Wait() returns once the counter is zero.
MainWait ==
  /\ Running /\ mainPc = "wait"
  /\ wg = 0
  /\ mainPc' = "close"
  /\ UNCHANGED << detail, args, excluded, argIdx, wg, queries, dls, task,
                  dl, total, successful, listed, reported, err, archiveCalls,
                  archiveFile, baseRemoved, exitCode, errLog, rel, taskRel >>

\* close(queries); close(dls)
MainClose ==
  /\ Running /\ mainPc = "close"
  /\ mainPc' = "report"
  /\ UNCHANGED << detail, args, excluded, argIdx, wg, queries, dls, task,
                  dl, total, successful, listed, reported, err, archiveCalls,
                  archiveFile, baseRemoved, exitCode, errLog, rel, taskRel >>

\* msgs <- msg{"downloaded %d/%d repos", successful, total}
MainReport ==
  /\ Running /\ mainPc = "report"
  /\ reported' = << <<successful, total>> >>
  /\ mainPc' = "check"
  /\ UNCHANGED << detail, args, excluded, argIdx, wg, queries, dls, task,
                  dl, total, successful, listed, err, archiveCalls,
                  archiveFile, baseRemoved, exitCode, errLog, rel, taskRel >>

\* MainCheck testing total instead of successful.
MainCheck_Total ==
  /\ Running /\ mainPc = "check"
  /\ IF total = 0
       THEN err' = "no repos" /\ mainPc' = "out"
       ELSE err' = err /\ mainPc' = "archive"
  /\ UNCHANGED << detail, args, excluded, argIdx, wg, queries, dls, task,
                  dl, total, successful, listed, reported, archiveCalls,
                  archiveFile, baseRemoved, exitCode, errLog, rel, taskRel >>

\* if successful == 0 { err = errors.New(...); goto out }
MainCheck ==
  /\ Running /\ mainPc = "check"
  /\ IF successful = 0
       THEN err' = "no repos" /\ mainPc' = "out"
       ELSE err' = err /\ mainPc' = "archive"
  /\ UNCHANGED << detail, args, excluded, argIdx, wg, queries, dls, task,
                  dl, total, successful, listed, reported, archiveCalls,
                  archiveFile, baseRemoved, exitCode, errLog, rel, taskRel >>

\* msgs <- msg{"archiving..."}; archive(base, name) is called and runs to
\* os.Create(name): on an error it returns at once, no file made; otherwise
\* the output file exists from here on while archive() goes on (its warning
\* on msgs, ioutil.ReadDir and the insert loop).
MainArchive ==
  /\ Running /\ mainPc = "archive"
  /\ archiveCalls' = archiveCalls + 1
  /\ \E created \in BOOLEAN :
       IF created
         THEN archiveFile' = TRUE /\ err' = err /\ mainPc' = "archiving"
         ELSE archiveFile' = archiveFile /\ err' = "archive" /\ mainPc' = "out"
  /\ UNCHANGED << detail, args, excluded, argIdx, wg, queries, dls, task,
                  dl, total, successful, listed, reported, baseRemoved,
                  exitCode, errLog, rel, taskRel >>

\* archive() returns: nil with the file written (main then sends "archive
\* created"), or the error of ioutil.ReadDir or insert, and then the deferred
\* os.Remove(name) has deleted the file.
MainArchiveDone ==
  /\ Running /\ mainPc = "archiving"
  /\ \E ok \in BOOLEAN :
       /\ archiveFile' = ok
       /\ err' = IF ok THEN "nil" ELSE "archive"
  /\ mainPc' = "out"
  /\ UNCHANGED << detail, args, excluded, argIdx, wg, queries, dls, task,
                  dl, total, successful, listed, reported, archiveCalls,
                  baseRemoved, exitCode, errLog, rel, taskRel >>

\* out: if err2 := os.RemoveAll(base); err2 != nil && err == nil { err = err2 }
MainOut ==
  /\ Running /\ mainPc = "out"
  /\ baseRemoved' = TRUE
  /\ \E err2 \in {"nil", "cleanup"} :
       err' = IF err2 # "nil" /\ err = "nil" THEN err2 ELSE err
  /\ mainPc' = "exit"
  /\ UNCHANGED << detail, args, excluded, argIdx, wg, queries, dls, task,
                  dl, total, successful, listed, reported, archiveCalls,
                  archiveFile, exitCode, errLog, rel, taskRel >>

\* A goroutine still has a send on msgs to make: queryOwner before its
\* "added individual repo" message, discoverRepos before its "found"
\* message, consumeDls before its "skipped" message, download before its
\* outcome message.
MsgsSendAhead ==
  \/ \E i \in Toks : task[i].pc \in {"mkdirerr", "msg", "found"}
  \/ \E id \in DlIds : dl[id] \in {"skipping", "cloning"}

\* if err != nil { log.Fatal(err) }: exit status 1 and no deferred call.
\* Otherwise main returns and the deferred close(msgs) runs: the process
\* ends with status 0, or, when a goroutine makes its send on the closed
\* channel before the runtime has exited, with a panic and status 2.
MainExit ==
  /\ Running /\ mainPc = "exit"
  /\ exitCode' \in IF err # "nil" THEN {1}
                   ELSE IF MsgsSendAhead THEN {0, 2} ELSE {0}
  /\ mainPc' = "exited"
  /\ UNCHANGED << detail, args, excluded, argIdx, wg, queries, dls, task,
                  dl, total, successful, listed, reported, err, archiveCalls,
                  archiveFile, baseRemoved, errLog, rel, taskRel >>


\* -------------------------------------------------------------- discovery
\* consumeQueries receives the next query and starts queryOwner for it,
\* whose mkdir(base, in.owner) fails; queryOwner stands before msgs <- err.
QueryMkdirFail ==
  /\ Running
  /\ queries # <<>>
  /\ queries' = Tail(queries)
  /\ task' = [task EXCEPT ![Head(queries)].pc = "mkdirerr"]
  /\ UNCHANGED << detail, args, excluded, mainPc, argIdx, wg, dls, dl, total,
                  successful, listed, reported, err, archiveCalls,
                  archiveFile, baseRemoved, exitCode, errLog, rel, taskRel >>

\* queryOwner after the failed mkdir: the send msgs <- err completes, then
\* wg.Done(); return.
QueryMkdirReport(i) ==
  /\ Running
  /\ task[i].pc = "mkdirerr"
  /\ errLog' = errLog \cup { ErrEntry("mkdir", i, 0, "mkdir") }
  /\ wg' = wg - 1
  /\ taskRel' = [taskRel EXCEPT ![i] = @ + 1]
  /\ task' = [task EXCEPT ![i].pc = "end"]
  /\ UNCHANGED << detail, args, excluded, mainPc, argIdx, queries, dls, dl,
                  total, successful, listed, reported, err, archiveCalls,
                  archiveFile, baseRemoved, exitCode, rel >>

\* QueryStart with queryOwner releasing the query's unit as it returns.
QueryStart_Released ==
  /\ Running
  /\ queries # <<>>
  /\ queries' = Tail(queries)
  /\ wg' = wg - 1
  /\ taskRel' = [taskRel EXCEPT ![Head(queries)] = @ + 1]
  /\ task' = [task EXCEPT ![Head(queries)].pc =
                IF KindOf(Head(queries)) = "queryRepo" THEN "get" ELSE "search"]
  /\ UNCHANGED << detail, args, excluded, mainPc, argIdx, dls, dl, total,
                  successful, listed, reported, err, archiveCalls,
                  archiveFile, baseRemoved, exitCode, errLog, rel >>

\* consumeQueries receives the next query and starts queryOwner for it,
\* whose mkdir succeeds; switch in.kind: a repo query goes on to
\* client.Repositories.Get, a user query starts discoverRepos in a
\* goroutine of its own and queryOwner returns.
QueryStart ==
  /\ Running
  /\ queries # <<>>
  /\ queries' = Tail(queries)
  /\ task' = [task EXCEPT ![Head(queries)].pc =
                IF KindOf(Head(queries)) = "queryRepo" THEN "get" ELSE "search"]
  /\ UNCHANGED << detail, args, excluded, mainPc, argIdx, wg, dls, dl, total,
                  successful, listed, reported, err, archiveCalls,
                  archiveFile, baseRemoved, exitCode, errLog, rel, taskRel >>

\* case queryRepo: client.Repositories.Get failed: msgs <- err; return
RepoGetFail(i) ==
  /\ Running /\ task[i].pc = "get"
  /\ errLog' = errLog \cup { ErrEntry("get", i, 0, "lookup") }
  /\ task' = [task EXCEPT ![i].pc = "end"]
  /\ UNCHANGED << detail, args, excluded, mainPc, argIdx, wg, queries, dls,
                  dl, total, successful, listed, reported, err, archiveCalls,
                  archiveFile, baseRemoved, exitCode, rel, taskRel >>

\* case queryRepo: client.Repositories.Get succeeded; out <- dl{...}
RepoSend(i) ==
  /\ Running /\ task[i].pc = "get"
  /\ Len(dls) < dlBacklog
  /\ dls' = Append(dls, <<i, 1>>)
  /\ dl' = [dl EXCEPT ![<<i, 1>>] = "queued"]
  /\ task' = [task EXCEPT ![i].pc = "msg"]
  /\ UNCHANGED << detail, args, excluded, mainPc, argIdx, wg, queries, total,
                  successful, listed, reported, err, archiveCalls,
                  archiveFile, baseRemoved, exitCode, errLog, rel, taskRel >>

\* case queryRepo: msgs <- msg{"added individual repo ..."}
RepoMsg(i) ==
  /\ Running /\ task[i].pc = "msg"
  /\ task' = [task EXCEPT ![i].pc = "total"]
  /\ UNCHANGED << detail, args, excluded, mainPc, argIdx, wg, queries, dls,
                  dl, total, successful, listed, reported, err, archiveCalls,
                  archiveFile, baseRemoved, exitCode, errLog, rel, taskRel >>

\* case queryRepo: atomic.AddUint64(&total, 1); queryOwner returns.
RepoTotal(i) ==
  /\ Running /\ task[i].pc = "total"
  /\ total' = total + 1
  /\ task' = [task EXCEPT ![i].pc = "end"]
  /\ UNCHANGED << detail, args, excluded, mainPc, argIdx, wg, queries, dls,
                  dl, successful, listed, reported, err, archiveCalls,
                  archiveFile, baseRemoved, exitCode, errLog, rel, taskRel >>

\* discoverRepos: client.Search.Repositories failed: log.Fatal(err), which
\* exits the process with status 1 without running any deferred call.
SearchFail(i) ==
  /\ Running /\ task[i].pc = "search"
  /\ exitCode' = 1
  /\ UNCHANGED << detail, args, excluded, mainPc, argIdx, wg, queries, dls,
                  task, dl, total, successful, listed, reported, err,
                  archiveCalls, archiveFile, baseRemoved, errLog, rel,
                  taskRel >>

\* discoverRepos: one page answered with n repositories and resp.NextPage:
\* count += n; wg.Add(n).  A page that names a next page is not empty.
SearchOk(i) ==
  /\ Running /\ task[i].pc = "search"
  /\ \E n \in 0..MaxPerPage :
     \E next \in {0, task[i].page + 2} :
       /\ listed + n <= MaxRepos
       /\ next # 0 => (n > 0 /\ next <= MaxPages)
       /\ listed' = listed + n
       /\ wg' = wg + n
       /\ task' = [task EXCEPT
            ![i] = IF n = 0
                   THEN [@ EXCEPT !.pc = "found", !.page = 0, !.next = 0]
                   ELSE [@ EXCEPT !.pc = "emit", !.page = @ + 1,
                                  !.next = next, !.count = @ + n]]
  /\ UNCHANGED << detail, args, excluded, mainPc, argIdx, queries, dls, dl,
                  total, successful, reported, err, archiveCalls, archiveFile,
                  baseRemoved, exitCode, errLog, rel, taskRel >>

\* Emit with a send that gives up when the channel already holds a value
\* (select with a default case): whether a descriptor arrives depends on how
\* fast the consumers are.
Emit_Drop(i) ==
  /\ Running /\ task[i].pc = "emit"
  /\ dls' = IF dls = <<>> THEN Append(dls, <<i, task[i].sent + 1>>) ELSE dls
  /\ dl' = IF dls = <<>>
           THEN [dl EXCEPT ![<<i, task[i].sent + 1>>] = "queued"] ELSE dl
  /\ task' = [task EXCEPT
       ![i] = IF task[i].sent + 1 < task[i].count
              THEN [@ EXCEPT !.sent = @ + 1]
              ELSE IF task[i].next = 0
              THEN [@ EXCEPT !.sent = @ + 1, !.pc = "found",
                             !.page = 0, !.next = 0]
              ELSE [@ EXCEPT !.sent = @ + 1, !.pc = "search"]]
  /\ UNCHANGED << detail, args, excluded, mainPc, argIdx, wg, queries, total,
                  successful, listed, reported, err, archiveCalls,
                  archiveFile, baseRemoved, exitCode, errLog, rel, taskRel >>

\* discoverRepos: out <- dl{...} for the next repository of the page; after
\* the page's last one, if resp.NextPage == 0 { break }, else the next
\* request (opt.Page = resp.NextPage; sleep).
Emit(i) ==
  /\ Running /\ task[i].pc = "emit"
  /\ Len(dls) < dlBacklog
  /\ dls' = Append(dls, <<i, task[i].sent + 1>>)
  /\ dl' = [dl EXCEPT ![<<i, task[i].sent + 1>>] = "queued"]
  /\ task' = [task EXCEPT
       ![i] = IF task[i].sent + 1 < task[i].count
              THEN [@ EXCEPT !.sent = @ + 1]
              ELSE IF task[i].next = 0
              THEN [@ EXCEPT !.sent = @ + 1, !.pc = "found",
                             !.page = 0, !.next = 0]
              ELSE [@ EXCEPT !.sent = @ + 1, !.pc = "search"]]
  /\ UNCHANGED << detail, args, excluded, mainPc, argIdx, wg, queries, total,
                  successful, listed, reported, err, archiveCalls,
                  archiveFile, baseRemoved, exitCode, errLog, rel, taskRel >>

\* discoverRepos: msgs <- msg{"found %d repos for %s"};
\* atomic.AddUint64(&total, count)
Found(i) ==
  /\ Running /\ task[i].pc = "found"
  /\ total' = total + task[i].count
  /\ task' = [task EXCEPT ![i].pc = "done"]
  /\ UNCHANGED << detail, args, excluded, mainPc, argIdx, wg, queries, dls,
                  dl, successful, listed, reported, err, archiveCalls,
                  archiveFile, baseRemoved, exitCode, errLog, rel, taskRel >>

\* discoverRepos: the deferred wg.Done() as the function returns.
DiscoverDone(i) ==
  /\ Running /\ task[i].pc = "done"
  /\ wg' = wg - 1
  /\ taskRel' = [taskRel EXCEPT ![i] = @ + 1]
  /\ task' = [task EXCEPT ![i].pc = "end"]
  /\ UNCHANGED << detail, args, excluded, mainPc, argIdx, queries, dls, dl,
                  total, successful, listed, reported, err, archiveCalls,
                  archiveFile, baseRemoved, exitCode, errLog, rel >>

\* --------------------------------------------------------------- download
\* consumeDls receives a descriptor and finds excluded[dl.fullname] true;
\* it stands before msgs <- "skipped".
ConsumeSkip ==
  /\ Running
  /\ dls # <<>>
  /\ FullName(Head(dls)) \in excluded
  /\ dls' = Tail(dls)
  /\ dl' = [dl EXCEPT ![Head(dls)] = "skipping"]
  /\ UNCHANGED << detail, args, excluded, mainPc, argIdx, wg, queries, task,
                  total, successful, listed, reported, err, archiveCalls,
                  archiveFile, baseRemoved, exitCode, errLog, rel, taskRel >>

\* consumeDls for an excluded descriptor: the send msgs <- "skipped"
\* completes, then wg.Done(); continue.
SkipDone(id) ==
  /\ Running
  /\ dl[id] = "skipping"
  /\ dl' = [dl EXCEPT ![id] = "skipped"]
  /\ wg' = wg - 1
  /\ rel' = [rel EXCEPT ![id] = @ + 1]
  /\ UNCHANGED << detail, args, excluded, mainPc, argIdx, queries, dls, task,
                  total, successful, listed, reported, err, archiveCalls,
                  archiveFile, baseRemoved, exitCode, errLog, taskRel >>

\* ConsumeLaunch without the excluded[dl.fullname] test before it.
ConsumeLaunch_NoCheck ==
  /\ Running
  /\ dls # <<>>
  /\ dls' = Tail(dls)
  /\ dl' = [dl EXCEPT ![Head(dls)] = "cloning"]
  /\ UNCHANGED << detail, args, excluded, mainPc, argIdx, wg, queries, task,
                  total, successful, listed, reported, err, archiveCalls,
                  archiveFile, baseRemoved, exitCode, errLog, rel, taskRel >>

\* consumeDls: go download(base, dl, wg); sleep
ConsumeLaunch ==
  /\ Running
  /\ dls # <<>>
  /\ FullName(Head(dls)) \notin excluded
  /\ dls' = Tail(dls)
  /\ dl' = [dl EXCEPT ![Head(dls)] = "cloning"]
  /\ UNCHANGED << detail, args, excluded, mainPc, argIdx, wg, queries, task,
                  total, successful, listed, reported, err, archiveCalls,
                  archiveFile, baseRemoved, exitCode, errLog, rel, taskRel >>

\* download: cmd.Output() returned nil: msgs <- "downloaded repo";
\* atomic.AddUint64(&successful, 1)
CloneOk(id) ==
  /\ Running /\ dl[id] = "cloning"
  /\ successful' = successful + 1
  /\ dl' = [dl EXCEPT ![id] = "ok"]
  /\ UNCHANGED << detail, args, excluded, mainPc, argIdx, wg, queries, dls,
                  task, total, listed, reported, err, archiveCalls,
                  archiveFile, baseRemoved, exitCode, errLog, rel, taskRel >>

\* download: cmd.Output() returned an error (the subprocess's, or ctx.Err()
\* when the deadline was exceeded): os.RemoveAll;
\* msgs <- errors.New(fullname + ": " + err.Error()); return
CloneFail(id) ==
  /\ Running /\ dl[id] = "cloning"
  /\ errLog' = errLog \cup { ErrEntry("clone", id[1], id[2], "clone") }
  /\ dl' = [dl EXCEPT ![id] = "fail"]
  /\ UNCHANGED << detail, args, excluded, mainPc, argIdx, wg, queries, dls,
                  task, total, successful, listed, reported, err,
                  archiveCalls, archiveFile, baseRemoved, exitCode, rel,
                  taskRel >>

\* DownloadDone with the deferred wg.Done() left out.
DownloadDone_NoRelease(id) ==
  /\ Running /\ dl[id] \in {"ok", "fail"}
  /\ dl' = [dl EXCEPT ![id] = IF dl[id] = "ok" THEN "done_ok" ELSE "done_fail"]
  /\ UNCHANGED << detail, args, excluded, mainPc, argIdx, wg, queries, dls, task,
                  total, successful, listed, reported, err, archiveCalls,
                  archiveFile, baseRemoved, exitCode, errLog, rel, taskRel >>

\* download: the deferred wg.Done() as the function returns.
DownloadDone(id) ==
  /\ Running /\ dl[id] \in {"ok", "fail"}
  /\ wg' = wg - 1
  /\ rel' = [rel EXCEPT ![id] = @ + 1]
  /\ dl' = [dl EXCEPT ![id] = IF dl[id] = "ok" THEN "done_ok" ELSE "done_fail"]
  /\ UNCHANGED << detail, args, excluded, mainPc, argIdx, queries, dls, task,
                  total, successful, listed, reported, err, archiveCalls,
                  archiveFile, baseRemoved, exitCode, errLog, taskRel >>

\* ---------------------------------------------------------- specification
Next ==
  \/ MainSetup
  \/ MainClient
  \/ MainAdd
  \/ MainSendQuery
  \/ MainReject
  \/ MainWait
  \/ MainClose
  \/ MainReport
  \/ MainCheck
  \/ MainArchive
  \/ MainArchiveDone
  \/ MainOut
  \/ MainExit
  \/ QueryMkdirFail
  \/ QueryStart
  \/ ConsumeSkip
  \/ ConsumeLaunch
  \/ \E i \in Toks :
       \/ QueryMkdirReport(i)
       \/ RepoGetFail(i)
       \/ RepoSend(i)
       \/ RepoMsg(i)
       \/ RepoTotal(i)
       \/ SearchFail(i)
       \/ SearchOk(i)
       \/ Emit(i)
       \/ Found(i)
       \/ DiscoverDone(i)
  \/ \E id \in DlIds :
       \/ SkipDone(id)
       \/ CloneOk(id)
       \/ CloneFail(id)
       \/ DownloadDone(id)

Spec == Init /\ [][Next]_vars

\* Every HTTP request and every clone returns, and the Go scheduler runs
\* every goroutine that can take a step.
FairSpec == Spec /\ WF_vars(Next)


\* ------------------------------------------------- positions and counting
\* main has not yet returned from wg.Wait().
BeforeBarrier == mainPc \in {"setup", "client", "add", "dispatch", "wait"}

\* wg.Wait() has returned in main.
BarrierFired == ~BeforeBarrier

\* main has run wg.Add(flag.NArg()).
Seeded == mainPc \notin {"setup", "client", "add"}

\* ioutil.TempDir has made the working directory base.
BaseCreated == mainPc # "setup"

\* Token i splits into more than two segments.
Malformed(i) == Len(Split(args[i])) > 2

\* Descriptor id reached a terminal outcome and its unit was released.
Terminal(id) == dl[id] \in {"done_ok", "done_fail", "skipped"}

\* The descriptors sent on dls so far.
Produced == { id \in DlIds : dl[id] # "none" }

\* The repo-kind tokens whose descriptor has been sent on dls.
RepoSent == { i \in Toks : Len(Split(args[i])) = 2 /\ dl[<<i, 1>>] # "none" }

RECURSIVE SumOver(_, _)
SumOver(f, S) ==
  IF S = {} THEN 0
  ELSE LET x == CHOOSE y \in S : TRUE IN f[x] + SumOver(f, S \ {x})

\* ------------------------------------------------------------------ claims

\* C1: before the barrier fires the counter is strictly positive whenever a
\* discovery task is still running, a descriptor sits in the dls channel or
\* a clone is in flight, and it is zero only when all scheduled discovery
\* and download work has terminated.
C1_CounterPositiveWhilePending ==
  LET \* Token i's query sits in the queries channel or its queryOwner /
      \* discoverRepos goroutine has statements left to run.
      DiscoveryRunning(i) ==
        task[i].pc \in {"queued", "mkdirerr", "get", "msg", "total", "search",
                        "emit", "found", "done"}
      \* Descriptor id's download goroutine is running.
      CloneInFlight(id) == dl[id] \in {"cloning", "ok", "fail"}
      \* Every discovery task and every download has run to its end.
      AllTerminated ==
        /\ \A i \in Toks : task[i].pc \in {"rejected", "end"}
        /\ dls = <<>>
        /\ \A id \in Produced : Terminal(id)
  IN
  (Seeded /\ BeforeBarrier) =>
    /\ ( \/ \E i \in Toks : DiscoveryRunning(i)
         \/ dls # <<>>
         \/ \E id \in DlIds : CloneInFlight(id) ) => wg > 0
    /\ wg = 0 => AllTerminated

\* C2: when every request and clone returns, the counter eventually reaches
\* zero, never becomes positive again afterwards, and wg.Wait() returns only
\* after every produced descriptor has its terminal outcome recorded.
C2_CounterReachesZeroOnce ==
  /\ Seeded ~> (Seeded /\ wg = 0)
  /\ [][(Seeded /\ wg = 0) => wg' = 0]_vars
  /\ [](BarrierFired => \A id \in Produced : Terminal(id))

\* C3: no descriptor is sent after the barrier has fired: a task that can
\* still send a descriptor holds the counter above zero and main has not
\* passed wg.Wait(), and main has no query left to send when it waits.
C3_NoSendAfterBarrier ==
  LET \* Token i's task can still send a descriptor on dls.
      CanSend(i) == task[i].pc \in {"queued", "get", "search", "emit"}
  IN
  /\ \A i \in Toks : CanSend(i) => (wg > 0 /\ BeforeBarrier)
  /\ BarrierFired => (argIdx > Len(args) /\ queries = <<>> /\ dls = <<>>)

\* C3 witness: the barrier fired after a discoverRepos task and a
\* queryOwner repo task have both sent descriptors.
C3_Witness ==
  /\ BarrierFired
  /\ \E i \in Toks : Len(Split(args[i])) = 1 /\ dl[<<i, 1>>] # "none"
  /\ RepoSent # {}

\* C4: every descriptor taken from dls causes exactly one wg.Done(),
\* whichever of success, failure or exclusion it ends in; before its
\* terminal outcome none has been made for it; the counter equals the units
\* added minus the units released and is never negative.
C4_OneReleasePerDescriptor ==
  LET \* Units added to the WaitGroup so far: wg.Add(flag.NArg()) in main
      \* and wg.Add(len(result.Repositories)) per page in discoverRepos.
      UnitsAdded == (IF Seeded THEN Len(args) ELSE 0) + listed
      \* Units released so far, by descriptors' handling and by tasks
      \* themselves.
      UnitsReleased == SumOver(rel, DlIds) + SumOver(taskRel, Toks)
  IN
  /\ \A id \in DlIds : rel[id] = (IF Terminal(id) THEN 1 ELSE 0)
  /\ wg = UnitsAdded - UnitsReleased
  /\ wg >= 0

\* C4 witness: one descriptor was excluded, one cloned, one failed to
\* clone, and each has released its unit.
C4_Witness ==
  \E x, y, z \in DlIds :
    /\ dl[x] = "skipped" /\ dl[y] = "done_ok" /\ dl[z] = "done_fail"
    /\ rel[x] = 1 /\ rel[y] = 1 /\ rel[z] = 1

\* C5: a task that failed (mkdir, the individual-repository lookup, an
\* owner's listing, or a clone) has released exactly one unit once it has
\* ended, and its failure does not end the process: only main's own exit
\* does.
C5_FailureIsLocal ==
  /\ \A i \in Toks :
       (task[i].pc = "end" /\ \E e \in errLog : e.tok = i /\ e.ord = 0)
         => taskRel[i] = 1
  /\ \A id \in DlIds : dl[id] = "done_fail" => rel[id] = 1
  /\ ~Running => mainPc \in {"setup", "client", "exited"}

\* C6: a descriptor whose full name is excluded is never handed to download,
\* releases exactly one unit when it is taken from dls, and the consumer
\* stays ready to receive the descriptors that follow.
C6_ExcludedNeverCloned ==
  /\ \A id \in DlIds : FullName(id) \in excluded =>
       /\ dl[id] \in {"none", "queued", "skipping", "skipped"}
       /\ rel[id] = (IF dl[id] = "skipped" THEN 1 ELSE 0)
  /\ (Running /\ dls # <<>>) => ENABLED (ConsumeSkip \/ ConsumeLaunch)

\* C6 witness: an excluded descriptor was skipped and a descriptor sent
\* after it by the same task has been cloned.
C6_Witness ==
  \E i \in Toks : \E j, k \in 1..MaxPerTok :
    /\ j < k
    /\ FullName(<<i, j>>) \in excluded
    /\ dl[<<i, j>>] = "skipped"
    /\ dl[<<i, k>>] = "done_ok"

\* C7: a token with more than two segments is reported as an error, makes
\* exactly one wg.Done(), never becomes a query or a descriptor, and main
\* still handles every token of the list.
C7_MalformedRejected ==
  /\ \A i \in Toks : Malformed(i) =>
       /\ task[i].pc = (IF argIdx > i THEN "rejected" ELSE "none")
       /\ taskRel[i] = (IF argIdx > i THEN 1 ELSE 0)
       /\ (ErrEntry("arg", i, 0, "invalid") \in errLog) <=> (argIdx > i)
       /\ \A n \in 1..Len(queries) : queries[n] # i
       /\ \A k \in 1..MaxPerTok : dl[<<i, k>>] = "none"
  /\ \A i \in Toks : (argIdx > i /\ ~Malformed(i)) => task[i].pc # "none"
  /\ mainPc \notin {"setup", "client", "add", "dispatch"}
       => argIdx = Len(args) + 1

\* C7 witness: a malformed token was rejected and the token after it was
\* dispatched and ran to its end.
C7_Witness ==
  \E i, j \in Toks :
    /\ i < j
    /\ Malformed(i) /\ task[i].pc = "rejected"
    /\ ~Malformed(j) /\ task[j].pc = "end"

\* C8: when main reads the result counters after the barrier,
\* successful <= total.
C8_SucceededAtMostDiscovered ==
  reported # <<>> => reported[1][1] <= reported[1][2]

\* C9: archive is not called before the counter has reached zero and the
\* barrier has fired, it is called at most once, and once main has passed
\* the check it was called iff successful # 0; with no success the archive
\* file is never created, err is the no-repos error and the exit status is
\* non-zero. The output file exists only after a call, and while archive()
\* is running it was called once with successful # 0.
C9_ArchiveGated ==
  /\ archiveCalls <= 1
  /\ archiveCalls > 0 => (BarrierFired /\ wg = 0)
  /\ archiveFile => (archiveCalls = 1 /\ successful > 0)
  /\ (BarrierFired /\ successful = 0) => (archiveCalls = 0 /\ ~archiveFile)
  /\ mainPc \in {"out", "exit", "exited"} =>
       /\ (archiveCalls = 0) <=> (successful = 0)
       /\ successful = 0 => (~archiveFile /\ err = "no repos")
  /\ (mainPc = "exited" /\ successful = 0) => exitCode = 1
  /\ mainPc = "archive" => (successful > 0 /\ archiveCalls = 0)
  /\ mainPc = "archiving" => (successful > 0 /\ archiveCalls = 1)

\* C9 witness: descriptors were discovered, none was cloned successfully,
\* and main has exited without archiving.
C9_Witness ==
  /\ mainPc = "exited"
  /\ Produced # {}
  /\ successful = 0
  /\ archiveCalls = 0

\* C10: the total main reads after the barrier equals the repositories
\* returned over all pages plus one per repo-kind token enqueued, that is
\* the number of descriptors sent on dls.
C10_TotalCountsDescriptors ==
  reported # <<>> =>
    /\ reported[1][2] = listed + Cardinality(RepoSent)
    /\ reported[1][2] = Cardinality(Produced)

\* C13: whenever the process has exited after the working directory was
\* created, os.RemoveAll(base) was called before the exit.
C13_CleanupBeforeExit ==
  (~Running /\ BaseCreated) => baseRemoved

\* C14: once main has run the cleanup, err is the no-repos error when
\* nothing was cloned and the archive error when archive failed, whatever
\* os.RemoveAll returned; err is the cleanup error only if repositories were
\* cloned and archive succeeded; the process exits non-zero iff err is
\* non-nil.
C14_EarlierErrorWins ==
  /\ mainPc \in {"exit", "exited"} =>
       /\ successful = 0 => err = "no repos"
       /\ (archiveCalls = 1 /\ ~archiveFile) => err = "archive"
       /\ err = "cleanup" => (successful > 0 /\ archiveCalls = 1 /\ archiveFile)
       /\ err = "nil" => (successful > 0 /\ archiveCalls = 1 /\ archiveFile)
  /\ mainPc = "exited" => (exitCode # 0 <=> err # "nil")

\* ---------------------------------------------------- download in detail
\* download(base, in, wg) of dl.go, with the clock the context deadline is
\* measured on and the repository directories under base.

\* Download goroutines running side by side.
MaxJobs == 2
\* The -t flag ranges over 0..MaxTimeout ticks; 0 disables it.  A clone
\* without a deadline is followed for MaxTimeout ticks.
MaxTimeout == 2
JobIds == 1..MaxJobs

\* The descriptors queryOwner and discoverRepos build.  owner is the
\* token's owner segment as typed; the API matches it without regard to
\* case.  fullname and private are read from the API's answer:
\* Repository.FullName, with the owner's login as registered, and
\* Repository.Private.
Descs ==
  { [owner |-> o, fullname |-> r.fullname, private |-> r.private] :
      o \in { <<"a">>, <<"A">> },
      r \in { [fullname |-> FullNameOf(<<"a">>, <<"r">>), private |-> FALSE],
              [fullname |-> FullNameOf(<<"a">>, <<"t">>), private |-> TRUE] } }

\* A download goroutine that was just started for descriptor d.
NewJob(d) ==
  [owner |-> d.owner, fullname |-> d.fullname, private |-> d.private,
   pc |-> "start", elapsed |-> 0, url |-> "", out |-> "", msg |-> ""]

\* The directory git clone writes, relative to base: `-C base/in.owner`
\* and the last element of the URL, the repository part of the full name.
CloneDir(j) ==
  LET seg == Split(j.fullname) IN FullNameOf(j.owner, seg[Len(seg)])

DlInit ==
  /\ PipelineParked
  /\ \E au \in BOOLEAN, t \in 0..MaxTimeout :
       \E ds \in [JobIds -> Descs] :
         dlw = [pc |-> "run", auth |-> au, timeout |-> t, wg |-> MaxJobs,
                successful |-> 0, repoDirs |-> {},
                job |-> [n \in JobIds |-> NewJob(ds[n])]]
  /\ arw = [pc |-> "idle"]
  /\ pgw = [pc |-> "idle"]
  /\ pcw = [pc |-> "idle"]
  /\ qw = [pc |-> "idle"]
  /\ cnw = [pc |-> "idle"]

\* The SSH URL only for a private descriptor of an authenticated run.
CloneUrl_Auth(j) == IF j.private /\ dlw.auth THEN "ssh" ELSE "git"

\* if in.private { args = append(args, in.ssh) } else { ... in.git }
CloneUrl(j) == IF j.private THEN "ssh" ELSE "git"

\* ctx.Err(): DeadlineExceeded once the deadline set by WithTimeout has
\* passed; context.Background() never expires.
CtxErr(j) ==
  IF dlw.timeout # 0 /\ j.elapsed >= dlw.timeout THEN "deadline" ELSE "nil"

\* if ctx.Err() == context.DeadlineExceeded { err = ctx.Err() }
CloneError(j) == IF CtxErr(j) = "deadline" THEN "deadline" ELSE "exit"

\* The subprocess of job j can still end by itself: no deadline, or the
\* deadline has not passed.
BeforeDeadline(j) == dlw.timeout = 0 \/ j.elapsed < dlw.timeout

\* ctx (with the deadline when timeout != 0), args, exec.CommandContext.
DlBegin(n) ==
  /\ dlw.job[n].pc = "start"
  /\ dlw' = [dlw EXCEPT !.job[n].pc = "run",
                         !.job[n].url = CloneUrl(dlw.job[n])]
  /\ UNCHANGED << pipeline, arw, pgw, pcw, qw, cnw >>

\* One tick passes for job n while git runs, or between git's failure and
\* the ctx.Err() test; a running git has created the repository directory.
DlTick(n) ==
  LET j == dlw.job[n] IN
  /\ \/ j.pc = "run"
     \/ j.pc = "failed" /\ dlw.timeout # 0
  /\ j.elapsed < MaxTimeout
  /\ BeforeDeadline(j)
  /\ dlw' = [dlw EXCEPT !.job[n].elapsed = @ + 1,
                         !.repoDirs = IF j.pc = "run"
                                      THEN @ \cup {CloneDir(j)} ELSE @]
  /\ UNCHANGED << pipeline, arw, pgw, pcw, qw, cnw >>

\* cmd.Output() returned nil: git has written the repository; download
\* stands before its send msgs <- "downloaded repo".
DlExitOk(n) ==
  LET j == dlw.job[n] IN
  /\ j.pc = "run" /\ BeforeDeadline(j)
  /\ dlw' = [dlw EXCEPT !.job[n].pc = "cloned",
                         !.job[n].out = "ok",
                         !.job[n].elapsed = 0,
                         !.repoDirs = @ \cup {CloneDir(j)}]
  /\ UNCHANGED << pipeline, arw, pgw, pcw, qw, cnw >>

\* The send msgs <- "downloaded repo" completes; atomic.AddUint64(&successful, 1).
DlSendOk(n) ==
  /\ dlw.job[n].pc = "cloned"
  /\ dlw' = [dlw EXCEPT !.job[n].pc = "ok",
                         !.job[n].msg = "downloaded",
                         !.successful = @ + 1]
  /\ UNCHANGED << pipeline, arw, pgw, pcw, qw, cnw >>

\* git exited by itself with a non-zero status.
DlExitErr(n) ==
  LET j == dlw.job[n] IN
  /\ j.pc = "run" /\ BeforeDeadline(j)
  /\ dlw' = [dlw EXCEPT !.job[n].pc = "failed", !.job[n].out = "exit"]
  /\ UNCHANGED << pipeline, arw, pgw, pcw, qw, cnw >>

\* The deadline passed with git still running: CommandContext kills it.
DlKill(n) ==
  LET j == dlw.job[n] IN
  /\ j.pc = "run" /\ ~BeforeDeadline(j)
  /\ dlw' = [dlw EXCEPT !.job[n].pc = "failed", !.job[n].out = "killed"]
  /\ UNCHANGED << pipeline, arw, pgw, pcw, qw, cnw >>

\* err != nil: os.RemoveAll(filepath.Join(base, in.fullname)); the ctx.Err()
\* test; msgs <- errors.New(in.fullname + ": " + err.Error()); return.
DlCleanup(n) ==
  LET j == dlw.job[n] IN
  /\ j.pc = "failed"
  /\ dlw' = [dlw EXCEPT !.job[n].pc = "fail",
                         !.job[n].msg = CloneError(j),
                         !.job[n].elapsed = 0,
                         !.repoDirs = @ \ {j.fullname}]
  /\ UNCHANGED << pipeline, arw, pgw, pcw, qw, cnw >>

\* The deferred cancel() and wg.Done().
DlReturn(n) ==
  /\ dlw.job[n].pc \in {"ok", "fail"}
  /\ dlw' = [dlw EXCEPT !.job[n].pc = "done", !.wg = @ - 1]
  /\ UNCHANGED << pipeline, arw, pgw, pcw, qw, cnw >>

DlNext ==
  \E n \in JobIds :
    \/ DlBegin(n)
    \/ DlTick(n)
    \/ DlExitOk(n)
    \/ DlSendOk(n)
    \/ DlExitErr(n)
    \/ DlKill(n)
    \/ DlCleanup(n)
    \/ DlReturn(n)

DlSpec == DlInit /\ [][DlNext]_vars

\* C12: a clone killed at its deadline is reported as deadline exceeded,
\* not with git's own error; once its cleanup ran the directory it cloned
\* into is gone, it has not counted as a success, and its return releases
\* one unit; with timeout 0 no clone is killed and none is reported as
\* timed out.
C12_DeadlineExceeded ==
  /\ \A n \in JobIds :
       LET j == dlw.job[n] IN
       /\ (j.out = "killed" /\ j.pc \in {"fail", "done"}) =>
            /\ j.msg = "deadline"
            /\ CloneDir(j) \notin dlw.repoDirs
       /\ j.out = "killed" => dlw.timeout # 0
       /\ dlw.timeout = 0 => j.msg # "deadline"
       /\ j.msg = "downloaded" <=> (j.out = "ok" /\ j.pc # "cloned")
  /\ dlw.successful =
       Cardinality({ n \in JobIds : dlw.job[n].msg = "downloaded" })
  /\ dlw.wg = MaxJobs - Cardinality({ n \in JobIds : dlw.job[n].pc = "done" })

\* C20 as stated: git clone is given the SSH URL exactly when the
\* descriptor is private and the client is authenticated, and the plain URL
\* otherwise.
C20_SshIffPrivateAuth ==
  \A n \in JobIds :
    LET j == dlw.job[n] IN
    j.pc # "start" =>
      /\ j.url = "ssh" <=> (j.private /\ dlw.auth)
      /\ j.url = "git" <=> ~(j.private /\ dlw.auth)

\* C20: git clone is given the SSH URL exactly when the descriptor is
\* marked private, and the plain URL exactly when it is not, whether or not
\* the client is authenticated.
C20_SshIffPrivate ==
  \A n \in JobIds :
    LET j == dlw.job[n] IN
    j.pc # "start" =>
      /\ j.url = "ssh" <=> j.private
      /\ j.url = "git" <=> ~j.private

\* C20 witness: without authentication a descriptor marked private is
\* cloned over SSH while a public one is cloned over the plain URL.
C20_Witness ==
  \E n, m \in JobIds :
    /\ ~dlw.auth
    /\ dlw.job[n].private /\ dlw.job[n].url = "ssh"
    /\ ~dlw.job[m].private /\ dlw.job[m].url = "git"

\* ----------------------------------------------------- archive in detail
\* archive(base, name) and insert(base, t, info) of archive.go over a tree
\* of directories and regular files under base.

\* Longest path below base, in segments (owner, repository, ...).
MaxDepth == 3

\* File names in the order ioutil.ReadDir and filepath.Walk sort them;
\* "f" names a regular file, every other name a directory.
NameOrder == << "a", "b", "d", "f" >>
OwnerNames == { "a", "b" }
EntryNames == { "d", "f" }

\* The working directory, as path segments.
Base == << "tmp", "gh-dl-1" >>

Last(q) == q[Len(q)]
IsRegular(q) == Last(q) = "f"
Rank(nm) == CHOOSE k \in 1..Len(NameOrder) : NameOrder[k] = nm

\* Paths relative to base that a tree can hold: an owner directory, then
\* entries; a regular file has nothing below it.
AllPaths ==
  { q \in UNION { [1..n -> OwnerNames \cup EntryNames] : n \in 1..MaxDepth } :
      /\ q[1] \in OwnerNames
      /\ \A k \in 2..Len(q) : q[k] \in EntryNames
      /\ \A k \in 1..(Len(q) - 1) : q[k] # "f" }

\* The trees: every path is there with its parent directory.
Trees ==
  { T \in SUBSET AllPaths :
      \A q \in T : Len(q) > 1 => SubSeq(q, 1, Len(q) - 1) \in T }

\* ioutil.ReadDir(q) on tree T, unsorted.
Children(T, q) ==
  { c \in T : Len(c) = Len(q) + 1 /\ SubSeq(c, 1, Len(q)) = q }

\* The entries of one directory sorted by file name.
RECURSIVE Sorted(_)
Sorted(S) ==
  IF S = {} THEN <<>>
  ELSE LET m == CHOOSE x \in S : \A y \in S : Rank(Last(x)) <= Rank(Last(y))
       IN <<m>> \o Sorted(S \ {m})

\* filepath.Walk(q, fn): q itself, then each entry of q in name order with
\* everything below it.
RECURSIVE Walk(_, _), WalkEach(_, _)
Walk(T, q) == <<q>> \o WalkEach(T, Sorted(Children(T, q)))
WalkEach(T, qs) ==
  IF qs = <<>> THEN <<>> ELSE Walk(T, Head(qs)) \o WalkEach(T, Tail(qs))

\* insert without the len(cloned) == 0 test.
InsertList_NoEmptyCheck(T, o) == Walk(T, o)

\* insert: the paths filepath.Walk visits for owner directory o, none when
\* ioutil.ReadDir(full) is empty.
InsertList(T, o) == IF Children(T, o) = {} THEN <<>> ELSE Walk(T, o)

\* filepath.ToSlash of the segments joined: the characters of hdr.Name.
RECURSIVE JoinSlash(_)
JoinSlash(segs) ==
  IF Len(segs) = 0 THEN <<>>
  ELSE IF Len(segs) = 1 THEN <<segs[1]>>
  ELSE <<segs[1], SLASH>> \o JoinSlash(Tail(segs))

\* hdr.Name of the entry written for the file at base/q:
\* filepath.ToSlash(filepath.Rel(base, path)).
HdrName(q) ==
  JoinSlash(SubSeq(Base \o q, Len(Base) + 1, Len(Base \o q)))

ArInit ==
  /\ PipelineParked
  /\ dlw = [pc |-> "idle"]
  /\ pgw = [pc |-> "idle"]
  /\ pcw = [pc |-> "idle"]
  /\ qw = [pc |-> "idle"]
  /\ cnw = [pc |-> "idle"]
  /\ \E T \in Trees, lv \in {"ok", "bad"} :
       arw = [pc |-> "create", tree |-> T, level |-> lv, err |-> "nil",
              ret |-> "", file |-> FALSE, warned |-> FALSE,
              todo |-> <<>>, walk |-> <<>>, entries |-> <<>>]

\* final, err := os.Create(name); a failure returns before any defer.
ArCreate ==
  /\ arw.pc = "create"
  /\ \/ arw' = [arw EXCEPT !.pc = "gzip", !.file = TRUE, !.err = "nil"]
     \/ arw' = [arw EXCEPT !.pc = "returned", !.err = "create",
                           !.ret = "create"]
  /\ UNCHANGED << pipeline, dlw, pgw, pcw, qw, cnw >>

\* if g, err = gzip.NewWriterLevel(final, level); err != nil { msgs <-
\* "gzip level invalid, using default"; g = gzip.NewWriter(final) }
ArGzip ==
  /\ arw.pc = "gzip"
  /\ arw' = [arw EXCEPT !.pc = "readdir",
                         !.err = IF arw.level = "bad" THEN "level" ELSE "nil",
                         !.warned = (arw.level = "bad")]
  /\ UNCHANGED << pipeline, dlw, pgw, pcw, qw, cnw >>

\* files, err := ioutil.ReadDir(base): err is the variable declared by
\* os.Create's line; if err != nil { return err }.
ArReadDir ==
  /\ arw.pc = "readdir"
  /\ \/ arw' = [arw EXCEPT !.pc = "loop", !.err = "nil",
                           !.todo = Sorted(Children(arw.tree, <<>>))]
     \/ arw' = [arw EXCEPT !.pc = "defer", !.err = "readdir",
                           !.ret = "readdir"]
  /\ UNCHANGED << pipeline, dlw, pgw, pcw, qw, cnw >>

\* err = insert(base, t, info) up to its filepath.Walk: ioutil.ReadDir(full)
\* succeeded; an empty owner directory makes insert return nil.
ArInsert ==
  /\ arw.pc = "loop" /\ arw.todo # <<>>
  /\ LET list == InsertList(arw.tree, Head(arw.todo)) IN
     IF list = <<>>
     THEN arw' = [arw EXCEPT !.err = "nil", !.todo = Tail(@)]
     ELSE arw' = [arw EXCEPT !.pc = "walk", !.walk = list]
  /\ UNCHANGED << pipeline, dlw, pgw, pcw, qw, cnw >>

\* The walk function for one path: t.WriteHeader(hdr) with hdr.Name the
\* slash path relative to base, and io.Copy of a regular file's content;
\* after the last path insert returns nil.
ArWalkStep ==
  /\ arw.pc = "walk"
  /\ LET q == Head(arw.walk)
         e == [name |-> HdrName(q), body |-> IsRegular(q)]
     IN IF Len(arw.walk) > 1
        THEN arw' = [arw EXCEPT !.entries = Append(@, e), !.walk = Tail(@)]
        ELSE arw' = [arw EXCEPT !.entries = Append(@, e), !.walk = <<>>,
                                !.pc = "loop", !.err = "nil",
                                !.todo = Tail(@)]
  /\ UNCHANGED << pipeline, dlw, pgw, pcw, qw, cnw >>

\* The operations of insert that can fail where archive stands.
InsertFaults ==
  IF arw.pc = "loop" THEN {"readdir owner"}
  ELSE IF IsRegular(Head(arw.walk)) THEN {"header", "open", "copy"}
  ELSE {"header"}

\* The tar entries when insert fails with e: os.Open and io.Copy fail
\* after t.WriteHeader(hdr) was made for the path, so its header is in the
\* archive, without the file's content.
EntriesAtFault(e) ==
  IF e \in {"open", "copy"}
  THEN Append(arw.entries,
              [name |-> HdrName(Head(arw.walk)), body |-> FALSE])
  ELSE arw.entries

\* The loop of archive with the error of insert in a variable of its own:
\* if err := insert(base, t, info); err != nil { return err }.
ArInsertFail_Shadow ==
  /\ \/ arw.pc = "loop" /\ arw.todo # <<>>
     \/ arw.pc = "walk"
  /\ \E e \in InsertFaults :
       arw' = [arw EXCEPT !.pc = "defer", !.ret = e,
                          !.entries = EntriesAtFault(e)]
  /\ UNCHANGED << pipeline, dlw, pgw, pcw, qw, cnw >>

\* insert returned an error (from ioutil.ReadDir(full), or from the walk
\* function, which ends filepath.Walk):
\* if err = insert(base, t, info); err != nil { return err }.
ArInsertFail ==
  /\ \/ arw.pc = "loop" /\ arw.todo # <<>>
     \/ arw.pc = "walk"
  /\ \E e \in InsertFaults :
       arw' = [arw EXCEPT !.pc = "defer", !.err = e, !.ret = e,
                          !.entries = EntriesAtFault(e)]
  /\ UNCHANGED << pipeline, dlw, pgw, pcw, qw, cnw >>

\* The range loop is over: return nil.
ArLoopEnd ==
  /\ arw.pc = "loop" /\ arw.todo = <<>>
  /\ arw' = [arw EXCEPT !.pc = "defer", !.ret = "nil"]
  /\ UNCHANGED << pipeline, dlw, pgw, pcw, qw, cnw >>

\* The deferred calls, last registered first: t.Close(), g.Close(),
\* final.Close(), then if err != nil { _ = os.Remove(name) }.
ArDefer ==
  /\ arw.pc = "defer"
  /\ arw' = [arw EXCEPT !.pc = "returned",
                         !.file = IF arw.err # "nil" THEN FALSE ELSE @]
  /\ UNCHANGED << pipeline, dlw, pgw, pcw, qw, cnw >>

ArNext ==
  \/ ArCreate
  \/ ArGzip
  \/ ArReadDir
  \/ ArInsert
  \/ ArWalkStep
  \/ ArInsertFail
  \/ ArLoopEnd
  \/ ArDefer

ArSpec == ArInit /\ [][ArNext]_vars

\* How often the name nm occurs among the tar entries.
EntryCount(nm) ==
  Cardinality({ k \in 1..Len(arw.entries) : arw.entries[k].name = nm })

\* The paths archive has to write for tree T: all of every owner directory
\* that is not empty.
Expected(T) == { q \in T : Children(T, <<q[1]>>) # {} }

\* C15: when archive has returned an error from listing base, reading an
\* owner directory or writing a header or a file body, the output file is
\* gone; when it has returned nil the file exists, with a valid and with an
\* invalid compression level alike.
C15_AllOrNothing ==
  arw.pc = "returned" =>
    /\ arw.ret \in {"readdir", "readdir owner", "header", "open", "copy"}
         => ~arw.file
    /\ arw.ret = "nil" => arw.file
    /\ (arw.ret = "nil") <=> (arw.err = "nil")

\* C15 witness: the copy of a file body failed after entries had been
\* written; archive returned that error and the output file is gone.
C15_Witness ==
  /\ arw.pc = "returned"
  /\ arw.ret = "copy"
  /\ arw.entries # <<>>
  /\ ~arw.file

\* C16: when archive has returned nil, an empty owner directory has no
\* entry, and every path of every other owner directory, the owner
\* directory included, has exactly one entry, named by its slash path
\* relative to base; a regular file's entry carries its content.
C16_OwnerEntries ==
  (arw.pc = "returned" /\ arw.ret = "nil") =>
    /\ \A q \in AllPaths :
         EntryCount(JoinSlash(q)) = (IF q \in Expected(arw.tree) THEN 1 ELSE 0)
    /\ Len(arw.entries) = Cardinality(Expected(arw.tree))
    /\ \A k \in 1..Len(arw.entries) :
         \E q \in Expected(arw.tree) :
           /\ arw.entries[k].name = JoinSlash(q)
           /\ arw.entries[k].body = IsRegular(q)

\* C16 witness: archive returned nil for a tree with an empty owner
\* directory and an owner directory holding a file in a repository.
C16_Witness ==
  /\ arw.pc = "returned" /\ arw.ret = "nil"
  /\ <<"a">> \in arw.tree /\ Children(arw.tree, <<"a">>) = {}
  /\ <<"b", "d", "f">> \in arw.tree
  /\ EntryCount(JoinSlash(<<"b", "d", "f">>)) = 1
  /\ EntryCount(JoinSlash(<<"a">>)) = 0

\* ------------------------------------------- the hand-written page loop
\* discoverRepos, requestRepos, checkRateLimit and checkPageCount of the
\* version that calls the REST API itself; strings are sequences of
\* characters.

\* The listing a server holds has 1..MaxServerPages pages.
MaxServerPages == 11

Digits == << "0", "1", "2", "3", "4", "5", "6", "7", "8", "9" >>
DigitVal(c) == (CHOOSE k \in 1..Len(Digits) : Digits[k] = c) - 1

\* strconv.Itoa for n >= 0.
RECURSIVE Itoa(_)
Itoa(n) ==
  IF n < Len(Digits) THEN <<Digits[n + 1]>>
  ELSE Itoa(n \div Len(Digits)) \o <<Digits[(n % Len(Digits)) + 1]>>

\* The value of a string of digits.
RECURSIVE DigitsVal(_)
DigitsVal(str) ==
  IF str = <<>> THEN 0
  ELSE DigitsVal(SubSeq(str, 1, Len(str) - 1)) * Len(Digits)
       + DigitVal(str[Len(str)])

\* strconv.Atoi on unsigned input: an error for the empty string and for
\* any character that is no digit.
Atoi(str) ==
  IF str # <<>> /\ \A k \in 1..Len(str) : \E d \in 1..Len(Digits) : Digits[d] = str[k]
  THEN [ok |-> TRUE, n |-> DigitsVal(str)]
  ELSE [ok |-> FALSE, n |-> 0]

\* strings.Index(str, sep), 1-based; 0 when sep does not occur.
IndexOf(str, sep) ==
  LET hits == { k \in 1..(Len(str) - Len(sep) + 1) :
                  SubSeq(str, k, k + Len(sep) - 1) = sep }
  IN IF hits = {} THEN 0 ELSE CHOOSE k \in hits : \A h \in hits : k <= h

\* strings.Split(str, sep) for a separator that is not empty.
RECURSIVE StrSplit(_, _)
StrSplit(str, sep) ==
  LET k == IndexOf(str, sep) IN
  IF k = 0 THEN <<str>>
  ELSE <<SubSeq(str, 1, k - 1)>>
       \o StrSplit(SubSeq(str, k + Len(sep), Len(str)), sep)

\* url.Parse(u).Query().Get(key): the value of the first key=value pair
\* named key in what follows the first "?", "" when there is none.
QueryGet(u, key) ==
  LET q == IndexOf(u, <<"?">>)
      raw == IF q = 0 THEN <<>> ELSE SubSeq(u, q + 1, Len(u))
      pairs == StrSplit(raw, <<"&">>)
      KeyOf(pr) == LET e == IndexOf(pr, <<"=">>)
                   IN IF e = 0 THEN pr ELSE SubSeq(pr, 1, e - 1)
      ValOf(pr) == LET e == IndexOf(pr, <<"=">>)
                   IN IF e = 0 THEN <<>> ELSE SubSeq(pr, e + 1, Len(pr))
      hits == { k \in 1..Len(pairs) : KeyOf(pairs[k]) = key }
  IN IF hits = {} THEN <<>>
     ELSE ValOf(pairs[CHOOSE k \in hits : \A h \in hits : k <= h])

PAGE == << "p", "a", "g", "e" >>
COMMASP == << ",", " " >>
SEMISP == << ";", " " >>
RelAttr(nm) == << "r", "e", "l", "=", "\"" >> \o nm \o << "\"" >>
LAST == << "l", "a", "s", "t" >>
NEXT == << "n", "e", "x", "t" >>
\* What checkPageCount yields when its slice expression panics.
PANIC == -2

\* checkPageCount(link): the links are examined from the last one down to
\* the second (i > 0); of "<url>" the characters [1 : len-2] are parsed as
\* the URL, which is a runtime panic (slice bounds out of range) when the
\* part has two characters; -1 when no page count is found.
checkPageCount(link) ==
  LET links == StrSplit(link, COMMASP)
      Usable(i) == LET parts == StrSplit(links[i], SEMISP)
                   IN /\ Len(parts) = 2
                      /\ Len(parts[1]) >= 2
                      /\ parts[2] = RelAttr(LAST)
      hits == { i \in 2..Len(links) : Usable(i) }
  IN IF hits = {} THEN -1
     ELSE LET i == CHOOSE k \in hits : \A h \in hits : k >= h
              part == StrSplit(links[i], SEMISP)[1]
              n == Atoi(QueryGet(SubSeq(part, 2, Len(part) - 2), PAGE))
          IN IF Len(part) = 2 THEN PANIC
             ELSE IF n.ok THEN n.n ELSE -1

\* "page_size=100", the other parameter of the request and of the links.
PAGESIZE ==
  << "p", "a", "g", "e", "_", "s", "i", "z", "e", "=", "1", "0", "0" >>

\* The URL of page n of the listing as a link carries it, with the page
\* parameter last ("end") or first ("mid") in the query.
PageUrl(n, shape) ==
  IF shape = "end"
  THEN << "u", "?" >> \o PAGESIZE \o << "&" >> \o PAGE \o << "=" >> \o Itoa(n)
  ELSE << "u", "?" >> \o PAGE \o << "=" >> \o Itoa(n) \o << "&" >> \o PAGESIZE

\* One link of a Link header: <url>; rel="name".
LinkEntry(u, nm) == << "<" >> \o u \o << ">" >> \o SEMISP \o RelAttr(nm)

\* The Link header of the response for page n of a listing of cnt pages:
\* empty for a one-page listing, without rel="last" on the last page.
LinkHeader(style, n, cnt) ==
  IF style = "none" \/ cnt = 1 THEN <<>>
  ELSE IF n >= cnt THEN LinkEntry(PageUrl(1, "mid"), << "f", "i", "r", "s", "t" >>)
  ELSE IF style = "lastFirst"
  THEN LinkEntry(PageUrl(cnt, "mid"), LAST) \o COMMASP
       \o LinkEntry(PageUrl(n + 1, "mid"), NEXT)
  ELSE IF style = "lastOnly" THEN LinkEntry(PageUrl(cnt, "mid"), LAST)
  ELSE LinkEntry(PageUrl(n + 1, style), NEXT) \o COMMASP
       \o LinkEntry(PageUrl(cnt, style), LAST)

\* The responses the server srv can give to the request for page n: the
\* transport may fail; the body may be no JSON array of repositories; a
\* page beyond the listing is empty.
Responses(srv, n) ==
  { r \in [get : {"ok", "err"}, rem : { <<>>, << "0" >>, << "5" >> },
           body : {"ok", "bad"},
           n : 0..MaxPerPage, link : {LinkHeader(srv.style, n, srv.pages)}] :
      /\ r.get = "err" => (r.rem = <<>> /\ r.body = "ok" /\ r.n = 0)
      /\ r.body = "bad" => r.n = 0
      /\ n > srv.pages => r.n = 0 }

\* checkRateLimit(hdrs): nil unless X-RateLimit-Remaining is "0".
checkRateLimit(rem) == IF rem # << "0" >> THEN "nil" ELSE "rate limit"

\* The element of a one-element set.
Only(S) == CHOOSE x \in S : TRUE

\* requestRepos reading and decoding the body before checkRateLimit.
requestRepos_ParseFirst(r, pages) ==
  IF r.get = "err" THEN [err |-> "http", n |-> 0, pages |-> pages]
  ELSE IF r.body = "bad" THEN [err |-> "body", n |-> 0, pages |-> pages]
  ELSE IF checkRateLimit(r.rem) # "nil"
  THEN [err |-> "rate limit", n |-> 0, pages |-> pages]
  ELSE Only({ IF c = PANIC THEN [err |-> "panic", n |-> 0, pages |-> pages]
              ELSE [err |-> "nil", n |-> r.n,
                    pages |-> IF c # -1 THEN c ELSE pages] :
              c \in { checkPageCount(r.link) } })

\* requestRepos(url, &pages): http.Get, checkRateLimit, ioutil.ReadAll and
\* json.Unmarshal, then *pages = n when checkPageCount found a count.
requestRepos(r, pages) ==
  IF r.get = "err" THEN [err |-> "http", n |-> 0, pages |-> pages]
  ELSE IF checkRateLimit(r.rem) # "nil"
  THEN [err |-> "rate limit", n |-> 0, pages |-> pages]
  ELSE IF r.body = "bad" THEN [err |-> "body", n |-> 0, pages |-> pages]
  ELSE Only({ IF c = PANIC THEN [err |-> "panic", n |-> 0, pages |-> pages]
              ELSE [err |-> "nil", n |-> r.n,
                    pages |-> IF c # -1 THEN c ELSE pages] :
              c \in { checkPageCount(r.link) } })

\* The page loop without its bound: for page := 1; ; page++.
MorePages_Unbounded == TRUE

\* The condition of the page loop: page <= pages.
MorePages == pgw.page <= pgw.pages

PgInit ==
  /\ PipelineParked
  /\ dlw = [pc |-> "idle"]
  /\ arw = [pc |-> "idle"]
  /\ pcw = [pc |-> "idle"]
  /\ qw = [pc |-> "idle"]
  /\ cnw = [pc |-> "idle"]
  /\ \E cnt \in 1..MaxServerPages, st \in { "none", "end", "mid", "lastFirst", "lastOnly" } :
       pgw = [pc |-> "loop", srv |-> [pages |-> cnt, style |-> st],
              page |-> 1, pages |-> 1, count |-> 0, wg |-> 1, emitted |-> 0,
              total |-> 0, reqs |-> <<>>, lastN |-> -1, err |-> "nil",
              resp |-> << >>, tosend |-> 0,
              lim |-> [hit |-> FALSE, at |-> 0, before |-> 0]]

\* The page loop asks for the page: v.Set("page", ...), and http.Get in
\* requestRepos returns with the server's response or an error.
PgRequest ==
  /\ pgw.pc = "loop" /\ MorePages
  /\ \E resp \in Responses(pgw.srv, pgw.page) :
       pgw' = [pgw EXCEPT
                 !.pc = "resp",
                 !.resp = << resp >>,
                 !.reqs = Append(@, pgw.page),
                 !.lim = IF resp.get = "ok" /\ resp.rem = << "0" >>
                         THEN [hit |-> TRUE, at |-> pgw.page,
                               before |-> pgw.emitted]
                         ELSE @]
  /\ UNCHANGED << pipeline, dlw, arw, pcw, qw, cnw >>

\* The rest of requestRepos and what the loop does with its result: a
\* panic unwinds the goroutine, running the deferred resp.Body.Close() and
\* wg.Done(), and ends the process; with an error the worker stands before
\* errs <- err; return; an empty page breaks the loop; otherwise
\* count += len(repos), wg.Add(len(repos)), and the worker stands before
\* its sends on out.
PgHandle ==
  /\ pgw.pc = "resp"
  /\ \E r \in { requestRepos(pgw.resp[1], pgw.pages) } :
       LET seen == [pgw EXCEPT !.resp = << >>]
       IN IF r.err = "panic"
          THEN pgw' = [seen EXCEPT !.pc = "crashed", !.err = r.err,
                                   !.wg = @ - 1]
          ELSE IF r.err # "nil"
          THEN pgw' = [seen EXCEPT !.pc = "failed", !.err = r.err]
          ELSE IF r.n = 0
          THEN pgw' = [seen EXCEPT !.pc = "found", !.pages = r.pages,
                                   !.lastN = 0]
          ELSE pgw' = [seen EXCEPT !.pc = "send", !.pages = r.pages,
                                   !.lastN = r.n, !.count = @ + r.n,
                                   !.wg = @ + r.n, !.tosend = r.n]
  /\ UNCHANGED << pipeline, dlw, arw, pcw, qw, cnw >>

\* for _, r := range repos { out <- dl{...} }: one send completes.
PgSend ==
  /\ pgw.pc = "send" /\ pgw.tosend > 0
  /\ pgw' = [pgw EXCEPT !.emitted = @ + 1, !.tosend = @ - 1]
  /\ UNCHANGED << pipeline, dlw, arw, pcw, qw, cnw >>

\* Every repository of the page was sent: time.Sleep(sleep); page++.
PgSleep ==
  /\ pgw.pc = "send" /\ pgw.tosend = 0
  /\ pgw' = [pgw EXCEPT !.pc = "loop", !.page = @ + 1]
  /\ UNCHANGED << pipeline, dlw, arw, pcw, qw, cnw >>

\* page <= pages is false: the loop is over.
PgLoopEnd ==
  /\ pgw.pc = "loop" /\ ~MorePages
  /\ pgw' = [pgw EXCEPT !.pc = "found"]
  /\ UNCHANGED << pipeline, dlw, arw, pcw, qw, cnw >>

\* msgs <- "found %d repos for %s"; atomic.AddUint64(&total, count).
PgFound ==
  /\ pgw.pc = "found"
  /\ pgw' = [pgw EXCEPT !.pc = "done", !.total = @ + pgw.count]
  /\ UNCHANGED << pipeline, dlw, arw, pcw, qw, cnw >>

\* The deferred wg.Done(), after the loop or after an error.
PgReturn ==
  /\ pgw.pc \in {"failed", "done"}
  /\ pgw' = [pgw EXCEPT !.pc = "end", !.wg = @ - 1]
  /\ UNCHANGED << pipeline, dlw, arw, pcw, qw, cnw >>

PgNext ==
  \/ PgRequest
  \/ PgHandle
  \/ PgSend
  \/ PgSleep
  \/ PgLoopEnd
  \/ PgFound
  \/ PgReturn

PgSpec == PgInit /\ [][PgNext]_vars

\* The worker left the page loop without an error.
PgFinished == pgw.pc \in {"found", "done", "end"} /\ pgw.err = "nil"

\* C17: after a response with X-RateLimit-Remaining "0" the worker, once
\* requestRepos has returned, has a rate-limit error to report, whatever
\* the body held; it has sent no
\* descriptor of that response, made no further request and no retry, and
\* returns releasing its own unit only, while the descriptors of earlier
\* pages stay sent with their units.
C17_RateLimitStopsWorker ==
  pgw.lim.hit =>
    /\ pgw.pc \in {"resp", "failed", "end"}
    /\ pgw.pc # "resp" => pgw.err = "rate limit"
    /\ pgw.emitted = pgw.lim.before
    /\ Len(pgw.reqs) = pgw.lim.at
    /\ \A k \in 1..Len(pgw.reqs) : pgw.reqs[k] = k
    /\ pgw.wg = pgw.emitted + (IF pgw.pc = "end" THEN 0 ELSE 1)
    /\ pgw.total = 0

\* C17 witness: the second page's response signalled an exhausted quota
\* after descriptors of the first page were sent; the worker has returned.
C17_Witness ==
  /\ pgw.lim.hit /\ pgw.lim.at = 2
  /\ pgw.lim.before > 0
  /\ pgw.emitted = pgw.lim.before
  /\ pgw.pc = "end"
  /\ pgw.err = "rate limit"

\* C18: the worker requests pages 1, 2, 3, ... in order, each once, never
\* one beyond the server's last page, and when it has left the loop
\* without error under a server that gives rel="last" links, either the
\* last response was empty or the server's last page has been requested.
C18_PagesUntilLast ==
  /\ \A k \in 1..Len(pgw.reqs) : pgw.reqs[k] = k
  /\ Len(pgw.reqs) <= pgw.srv.pages
  /\ pgw.lastN = 0 => pgw.pc # "loop"
  /\ (PgFinished /\ pgw.srv.style # "none") =>
       (pgw.lastN = 0 \/ Len(pgw.reqs) = pgw.srv.pages)

\* C19: under a server that gives no rel="last" link the worker leaves the
\* loop only after a response with zero items.
C19_DrivenByEmptiness ==
  (PgFinished /\ pgw.srv.style = "none") => pgw.lastN = 0

\* C19 as the code has it: under a server that gives no rel="last" link
\* the page count stays 1, so the worker requests page 1 and no other page,
\* whether or not that page held items.
C19_NoLinkSinglePage ==
  pgw.srv.style = "none" =>
    /\ pgw.pages = 1
    /\ Len(pgw.reqs) <= 1
    /\ pgw.pc # "loop" => pgw.reqs = << 1 >>

\* C19 witness: a server with more than one page and no Link header; the
\* first page held items and the worker has returned after that one
\* request.
C19_Witness ==
  /\ pgw.srv.style = "none" /\ pgw.srv.pages > 1
  /\ pgw.pc = "end" /\ pgw.err = "nil"
  /\ pgw.lastN > 0
  /\ pgw.reqs = << 1 >>
  /\ pgw.total = pgw.lastN

\* --------------------------------------------- claims about the pipeline

\* The descriptors token i has put on dls so far, by ordinal.
SentBy(i) == { k \in 1..MaxPerTok : dl[<<i, k>>] # "none" }

\* C21: the descriptors on dls are a function of the token list and of
\* what the API served, whatever the interleaving: an owner token has put
\* exactly the first task.sent of its listed repositories, all of them once
\* its listing is over; a repo token whose lookup succeeded exactly one; a
\* malformed token none.
C21_DescriptorsDetermined ==
  LET \* An error of token i's own task (mkdir or the repository lookup)
      \* was reported.
      TaskFailed(i) == \E e \in errLog : e.tok = i /\ e.ord = 0
  IN
  \A i \in Toks :
    /\ Len(Split(args[i])) = 1 =>
         /\ SentBy(i) = 1..task[i].sent
         /\ task[i].sent <= task[i].count
         /\ task[i].pc \in {"found", "done", "end"} =>
              task[i].sent = task[i].count
    /\ Len(Split(args[i])) = 2 =>
         /\ SentBy(i) \subseteq {1}
         /\ (SentBy(i) = {1}) <=>
              \/ task[i].pc \in {"msg", "total"}
              \/ task[i].pc = "end" /\ ~TaskFailed(i)
    /\ Malformed(i) => SentBy(i) = {}

\* C21 witness: an owner token's listing of two repositories is over, a
\* repo token's lookup succeeded, both tasks have ended, and the three
\* descriptors were put on dls.
C21_Witness ==
  \E i, j \in Toks :
    /\ Len(Split(args[i])) = 1 /\ task[i].pc = "end" /\ task[i].count = 2
    /\ SentBy(i) = {1, 2}
    /\ Len(Split(args[j])) = 2 /\ task[j].pc = "end" /\ SentBy(j) = {1}

\* ----------------------------------------- claims about the page count

\* The Link header of the response for page n of server srv has an entry
\* marked rel="last".
HasLast(srv, n) == srv.style # "none" /\ srv.pages > 1 /\ n < srv.pages

\* C22: after requestRepos has returned without error, the page count is the N of the
\* header's rel="last" entry when the header has one, wherever it stands
\* and however many digits N has; the count is 1, as at the start, as long
\* as no response carried such an entry.
C22_PageCountFromLast ==
  (pgw.err = "nil" /\ pgw.reqs # <<>> /\ pgw.pc # "resp") =>
    /\ HasLast(pgw.srv, Len(pgw.reqs)) => pgw.pages = pgw.srv.pages
    /\ ~HasLast(pgw.srv, 1) => pgw.pages = 1

\* ------------------------------------ claims about counters and messages

\* Token i's queryOwner still has its "added individual repo" message to
\* send on msgs.
MsgPending(i) == task[i].pc = "msg"

\* C25: once the barrier has fired no task has an increment of total or a
\* status message left, and the counters equal the values main printed.
C25_CountersFinalAtBarrier ==
  LET \* Token i's task still has an increment of total to make.
      TotalPending(i) == task[i].pc \in {"msg", "total", "found"}
  IN
  /\ BarrierFired => \A i \in Toks : ~TotalPending(i) /\ ~MsgPending(i)
  /\ reported # <<>> => reported[1] = << successful, total >>

\* C27: when main is at its normal return, where the deferred close(msgs)
\* runs, no goroutine has a send on msgs left to do.
C27_NoSendAfterClose ==
  (mainPc \in {"exit", "exited"} /\ err = "nil") =>
    /\ \A i \in Toks : ~MsgPending(i) /\ task[i].pc # "found"
    /\ \A id \in DlIds : dl[id] # "cloning"

\* ------------------------------- claim about the clones' directories

\* C26: the directory of every clone that succeeded is under the working
\* root, whatever happened to other clones.
C26_OwnOutputOnly ==
  \A n \in JobIds :
    dlw.job[n].out = "ok" => CloneDir(dlw.job[n]) \in dlw.repoDirs

\* ---------------------------------------------- the consumers' pacing
\* main starts `workers` consumeQueries and `workers` consumeDls goroutines
\* (part_002:158-161).  Each one loops: receive an item, start its handler
\* with `go`, time.Sleep(sleep) (part_000:45-50, dl.go:42-56); an excluded
\* descriptor is skipped without a sleep.  The consumers of one queue are
\* interchangeable, so the view keeps, for every number of ticks of sleep
\* left, how many consumers have that much left.

\* The number of consumer goroutines per queue.
workers == 10

\* The pacing delay `sleep`, in ticks of the view's clock.
SleepTicks == 2

\* Items (queries or descriptors to clone) that pass through the queue.
MaxQueued == 11

\* Excluded descriptors among those that pass through the dls queue.
MaxSkipped == 1

Slots == 0..SleepTicks

RECURSIVE SumSeq(_)
SumSeq(s) == IF s = <<>> THEN 0 ELSE Head(s) + SumSeq(Tail(s))

PcInit ==
  /\ PipelineParked
  /\ dlw = [pc |-> "idle"]
  /\ arw = [pc |-> "idle"]
  /\ pgw = [pc |-> "idle"]
  /\ qw = [pc |-> "idle"]
  /\ cnw = [pc |-> "idle"]
  /\ \E k \in {"queries", "dls"}, n \in 0..MaxQueued, x \in 0..MaxSkipped :
       /\ k = "queries" => x = 0
       /\ pcw = [pc |-> "run", kind |-> k, items |-> n, skips |-> x,
                 slp |-> [d \in Slots |-> IF d = 0 THEN workers ELSE 0],
                 cur |-> 0, hist |-> [i \in 1..(SleepTicks - 1) |-> 0]]

\* A consumer that does not sleep after starting the handler.
PcLaunch_NoSleep ==
  /\ pcw.pc = "run"
  /\ pcw.items > 0
  /\ pcw.slp[0] > 0
  /\ pcw' = [pcw EXCEPT !.items = @ - 1, !.cur = @ + 1]
  /\ UNCHANGED << pipeline, dlw, arw, pgw, qw, cnw >>

\* A consumer that is not asleep receives an item and starts its handler:
\* `go queryOwner(...)` or `go download(...)`, then time.Sleep(sleep).
PcLaunch ==
  /\ pcw.pc = "run"
  /\ pcw.items > 0
  /\ pcw.slp[0] > 0
  /\ pcw' = [pcw EXCEPT !.items = @ - 1, !.cur = @ + 1,
                        !.slp = [@ EXCEPT ![0] = @ - 1,
                                          ![SleepTicks] = @ + 1]]
  /\ UNCHANGED << pipeline, dlw, arw, pgw, qw, cnw >>

\* consumeDls receives an excluded descriptor: message, wg.Done(),
\* continue; no handler is started and the consumer does not sleep.
PcSkip ==
  /\ pcw.pc = "run"
  /\ pcw.kind = "dls"
  /\ pcw.skips > 0
  /\ pcw.slp[0] > 0
  /\ pcw' = [pcw EXCEPT !.skips = @ - 1]
  /\ UNCHANGED << pipeline, dlw, arw, pgw, qw, cnw >>

\* One tick of the clock: every sleeping consumer has one tick less to
\* sleep, and the launches of this tick become history.
PcTick ==
  /\ pcw.pc = "run"
  /\ pcw' = [pcw EXCEPT
       !.slp = [d \in Slots |->
                  IF d = 0 THEN pcw.slp[0] + pcw.slp[1]
                  ELSE IF d = SleepTicks THEN 0 ELSE pcw.slp[d + 1]],
       !.hist = SubSeq(<< pcw.cur >> \o pcw.hist, 1, SleepTicks - 1),
       !.cur = 0]
  /\ UNCHANGED << pipeline, dlw, arw, pgw, qw, cnw >>

PcNext == PcLaunch \/ PcSkip \/ PcTick

PaceSpec == PcInit /\ [][PcNext]_vars

\* Handlers started from this queue within the last pacing delay: in this
\* tick and the SleepTicks - 1 ticks before it.
LaunchesInPeriod == pcw.cur + SumSeq(pcw.hist)

\* C23 as stated: at most one handler is started from a queue per pacing
\* delay, however many consumers run.
C23_OneLaunchPerDelay == LaunchesInPeriod <= 1

\* C23, amended: every handler started within the last pacing delay was
\* started by a consumer that is still asleep, so each consumer starts at
\* most one per delay and a queue's consumers at most `workers` together.
C23_OneLaunchPerConsumer ==
  LET \* Consumers of this queue that are inside their time.Sleep(sleep).
      Sleeping == workers - pcw.slp[0]
  IN
  /\ LaunchesInPeriod = Sleeping
  /\ LaunchesInPeriod <= workers

\* Every consumer has started a handler within one pacing delay and an
\* item waits in the queue for the first of them to wake up.
C23_Witness ==
  /\ LaunchesInPeriod = workers
  /\ pcw.items > 0
  /\ pcw.slp[0] = 0

\* ------------------------------------------------- the two queues
\* queries := make(chan query, flag.NArg()); dls := make(chan dl, dlBacklog)
\* (part_002:155-156).  main sends one query per token (part_002:163-182);
\* a consumer takes it and starts the token's task (part_000:45-50); the
\* task sends its descriptors on dls one by one (part_000:98-108); a
\* consumer takes them in turn (dl.go:42-56).  A send on a full channel
\* blocks: it is not enabled until a receive makes room.

\* Descriptors a listing has beyond the capacity of dls.
MaxOver == 2

\* A listing larger than the descriptor queue.
BigLoad == dlBacklog + MaxOver

\* Descriptors each token's task will send: none (an owner without
\* repositories), one (a repository token), a few, or a big listing.  A
\* big listing comes with tokens that yield nothing, which keeps the
\* orders in which descriptors can meet in the queue countable.
QLoads ==
  { ld \in UNION { [1..n -> {0, 1, MaxOver, BigLoad}] : n \in 1..MaxArgs } :
      \A t \in DOMAIN ld :
        ld[t] = BigLoad => \A u \in DOMAIN ld \ {t} : ld[u] = 0 }

\* flag.NArg(), the capacity of queries.
QueryCap == Len(qw.load)

QToks == 1..Len(qw.load)

QInit ==
  /\ PipelineParked
  /\ dlw = [pc |-> "idle"]
  /\ arw = [pc |-> "idle"]
  /\ pgw = [pc |-> "idle"]
  /\ pcw = [pc |-> "idle"]
  /\ cnw = [pc |-> "idle"]
  /\ \E ld \in QLoads :
       qw = [pc |-> "run", load |-> ld, mainSent |-> 0, queries |-> << >>,
             started |-> [t \in DOMAIN ld |-> FALSE],
             sent |-> [t \in DOMAIN ld |-> 0], dls |-> << >>,
             got |-> [t \in DOMAIN ld |-> 0], bad |-> FALSE]

\* main's range loop: queries <- query{...} for the next token.
QMainSend ==
  /\ qw.pc = "run"
  /\ qw.mainSent < Len(qw.load)
  /\ Len(qw.queries) < QueryCap
  /\ qw' = [qw EXCEPT !.mainSent = @ + 1,
                      !.queries = Append(@, qw.mainSent + 1)]
  /\ UNCHANGED << pipeline, dlw, arw, pgw, pcw, cnw >>

\* consumeQueries receives a query and starts its task.
QTakeQuery ==
  /\ qw.pc = "run"
  /\ qw.queries # << >>
  /\ qw' = [qw EXCEPT !.queries = Tail(@),
                      !.started[Head(qw.queries)] = TRUE]
  /\ UNCHANGED << pipeline, dlw, arw, pgw, pcw, cnw >>

\* A send that does not wait for room: on a full queue it takes the place
\* of the descriptor queued last.
QProduce_Overwrite(t) ==
  /\ qw.pc = "run"
  /\ qw.started[t]
  /\ qw.sent[t] < qw.load[t]
  /\ qw' = [qw EXCEPT
       !.sent[t] = @ + 1,
       !.dls = IF Len(@) < dlBacklog
               THEN Append(@, << t, qw.sent[t] + 1 >>)
               ELSE [@ EXCEPT ![dlBacklog] = << t, qw.sent[t] + 1 >>]]
  /\ UNCHANGED << pipeline, dlw, arw, pgw, pcw, cnw >>

\* Token t's task sends its next descriptor: out <- dl{...}.
QProduce(t) ==
  /\ qw.pc = "run"
  /\ qw.started[t]
  /\ qw.sent[t] < qw.load[t]
  /\ Len(qw.dls) < dlBacklog
  /\ qw' = [qw EXCEPT !.sent[t] = @ + 1,
                      !.dls = Append(@, << t, qw.sent[t] + 1 >>)]
  /\ UNCHANGED << pipeline, dlw, arw, pgw, pcw, cnw >>

\* consumeDls receives the descriptor at the head of dls.
QTakeDl ==
  /\ qw.pc = "run"
  /\ qw.dls # << >>
  /\ LET d == Head(qw.dls)
     IN qw' = [qw EXCEPT !.dls = Tail(@),
                         !.got[d[1]] = @ + 1,
                         !.bad = @ \/ d[2] # qw.got[d[1]] + 1]
  /\ UNCHANGED << pipeline, dlw, arw, pgw, pcw, cnw >>

QNext ==
  \/ QMainSend
  \/ QTakeQuery
  \/ \E t \in QToks : QProduce(t)
  \/ QTakeDl

QSpec == QInit /\ [][QNext]_vars

\* Some goroutine that can run is run; the consumers' sleeps end.
QFairSpec == QSpec /\ WF_vars(QNext)

\* Token t's task waits in its send on the full dls.
ProducerBlocked(t) ==
  /\ t \in QToks
  /\ qw.started[t]
  /\ qw.sent[t] < qw.load[t]
  /\ Len(qw.dls) = dlBacklog

\* Token t's task has completed all its sends.
Delivered(t) == t \in QToks /\ qw.sent[t] = qw.load[t]

\* Every descriptor sent is in dls or was received, once and in the order
\* its task sent it.
NothingLost ==
  LET \* Descriptors of token t now in dls.
      InQueue(t) == Cardinality({ i \in 1..Len(qw.dls) : qw.dls[i][1] = t })
  IN
  /\ ~qw.bad
  /\ \A t \in QToks : qw.sent[t] = qw.got[t] + InQueue(t)

\* main's next send on queries finds room.
MainNeverBlocks == qw.mainSent < Len(qw.load) => Len(qw.queries) < QueryCap

\* C24: dls never holds more than dlBacklog descriptors, none is lost or
\* overwritten, main's sends on queries always find room, and a task
\* blocked on the full dls eventually completes all its sends.
C24_BoundedQueueNoDeadlock ==
  /\ [](Len(qw.dls) <= dlBacklog /\ NothingLost /\ MainNeverBlocks)
  /\ \A t \in 1..MaxArgs : ProducerBlocked(t) ~> Delivered(t)

\* dls is full, a task waits to send more, and consumers have already
\* received descriptors of that task.
C24_Witness ==
  \E t \in QToks : ProducerBlocked(t) /\ qw.got[t] > 0

\* ------------------------------------------- the consumers one by one
\* main starts `workers` consumeQueries and `workers` consumeDls goroutines
\* on the two channels (part_002:158-161).  Every consumer is a process of
\* its own here: it receives an item into its loop variable, starts the
\* handler with `go`, sleeps, and receives again (part_000:45-50,
\* dl.go:42-56).  A goroutine started with `go f(x)` begins to run at some
\* later moment, possibly after its consumer has received the next item.
\* A consumer asleep is one that has not received yet, so the sleep is not a
\* state of its own here; the pacing is the subject of PaceSpec.

Consumers == 1..workers

\* The run of the view: an owner, whose listing has MaxRepos repositories,
\* and one repository.
CnArgs == << <<"a">>, <<"a", "/", "r">> >>

\* The descriptors the query of token i leads to.
CnCount(i) == IF KindOf(i) = "queryUser" THEN MaxRepos ELSE 1
CnIds == { id \in (1..Len(CnArgs)) \X (1..MaxRepos) : id[2] <= CnCount(id[1]) }

\* The loop variable of a consumer while nothing reads it.  qrecv and drecv
\* count, for every query and descriptor, the receives of it.
NoItem == [qc |-> 0, dc |-> << >>]

CnInit ==
  /\ PipelineInit
  /\ args = CnArgs
  /\ dlw = [pc |-> "idle"]
  /\ arw = [pc |-> "idle"]
  /\ pgw = [pc |-> "idle"]
  /\ pcw = [pc |-> "idle"]
  /\ qw = [pc |-> "idle"]
  /\ cnw = [pc |-> "run", mainSent |-> 0, queries |-> << >>, dls |-> << >>,
            qc |-> [c \in Consumers |-> [pc |-> "recv", cur |-> NoItem.qc]],
            dc |-> [c \in Consumers |-> [pc |-> "recv", cur |-> NoItem.dc]],
            started |-> {}, running |-> {},
            qrecv |-> [i \in 1..Len(CnArgs) |-> 0],
            qcalls |-> [i \in 1..Len(CnArgs) |-> 0],
            drecv |-> [id \in CnIds |-> 0],
            clones |-> [id \in CnIds |-> 0],
            skips |-> [id \in CnIds |-> 0]]

\* The handler's argument read from its consumer's loop variable when the
\* goroutine runs, as a closure over the loop variable does.
GoArg_Captured(h) == cnw[h.pool][h.by].cur

\* go queryOwner(client, base, query, out, wg) and go download(base, dl, wg):
\* the argument is evaluated by the go statement and handed to the goroutine.
GoArg(h) == h.arg

\* Consumer h.by once its goroutine h has begun to run: a consumer waiting
\* in its receive with no goroutine left to start has a loop variable that
\* nothing reads before the next receive overwrites it.
AfterStart(h) ==
  LET m == cnw[h.pool][h.by] IN
  IF m.pc = "recv"
     /\ \A g \in cnw.started : (g.pool = h.pool /\ g.by = h.by) => g = h
    THEN [m EXCEPT !.cur = NoItem[h.pool]] ELSE m

\* main's range loop: queries <- query{...} for the next token; the channel
\* holds flag.NArg() values, so the send does not wait.
CnMainSend ==
  /\ cnw.pc = "run"
  /\ cnw.mainSent < Len(args)
  /\ cnw' = [cnw EXCEPT !.mainSent = @ + 1,
                         !.queries = Append(@, cnw.mainSent + 1)]
  /\ UNCHANGED << pipeline, dlw, arw, pgw, pcw, qw >>

\* consumeQueries: `for query := range in` receives the channel's head.
QcRecv(c) ==
  /\ cnw.pc = "run"
  /\ cnw.qc[c].pc = "recv"
  /\ cnw.queries # << >>
  /\ cnw' = [cnw EXCEPT !.queries = Tail(@),
                         !.qc[c] = [pc |-> "go", cur |-> Head(cnw.queries)],
                         !.qrecv[Head(cnw.queries)] = @ + 1]
  /\ UNCHANGED << pipeline, dlw, arw, pgw, pcw, qw >>

\* go queryOwner(client, base, query, out, wg); time.Sleep(sleep); back to
\* the range receive.
QcGo(c) ==
  /\ cnw.pc = "run"
  /\ cnw.qc[c].pc = "go"
  /\ cnw' = [cnw EXCEPT !.qc[c].pc = "recv",
                         !.started = @ \cup {[pool |-> "qc", by |-> c,
                                              arg |-> cnw.qc[c].cur]}]
  /\ UNCHANGED << pipeline, dlw, arw, pgw, pcw, qw >>

\* The goroutine of a go queryOwner(...) begins to run: one discovery task
\* for its query.
QhStart(h) ==
  /\ cnw.pc = "run"
  /\ h \in cnw.started /\ h.pool = "qc"
  /\ cnw' = [cnw EXCEPT !.started = @ \ {h},
                         !.qc[h.by] = AfterStart(h),
                         !.qcalls[GoArg(h)] = @ + 1,
                         !.running = @ \cup {[tok |-> GoArg(h), sent |-> 0]}]
  /\ UNCHANGED << pipeline, dlw, arw, pgw, pcw, qw >>

\* out <- dl{...}: the task sends its next descriptor, the looked-up
\* repository (queryOwner) or the next listed one (discoverRepos), and ends
\* after the last.
QhSend(r) ==
  /\ cnw.pc = "run"
  /\ r \in cnw.running
  /\ Len(cnw.dls) < dlBacklog
  /\ cnw' = [cnw EXCEPT !.dls = Append(@, << r.tok, r.sent + 1 >>),
                         !.running =
                            (@ \ {r}) \cup
                            IF r.sent + 1 < CnCount(r.tok)
                              THEN {[r EXCEPT !.sent = @ + 1]} ELSE {}]
  /\ UNCHANGED << pipeline, dlw, arw, pgw, pcw, qw >>

\* consumeDls: `for dl := range in` receives the channel's head and tests
\* excluded[dl.fullname].
DcRecv(c) ==
  /\ cnw.pc = "run"
  /\ cnw.dc[c].pc = "recv"
  /\ cnw.dls # << >>
  /\ cnw' = [cnw EXCEPT !.dls = Tail(@),
                         !.dc[c] = [pc |-> IF FullName(Head(cnw.dls)) \in excluded
                                            THEN "skip" ELSE "go",
                                    cur |-> Head(cnw.dls)],
                         !.drecv[Head(cnw.dls)] = @ + 1]
  /\ UNCHANGED << pipeline, dlw, arw, pgw, pcw, qw >>

\* msgs <- msg{"skipped ..."}; wg.Done(); continue.
DcSkip(c) ==
  /\ cnw.pc = "run"
  /\ cnw.dc[c].pc = "skip"
  /\ cnw' = [cnw EXCEPT !.dc[c] = [pc |-> "recv",
                                   cur |-> IF \E g \in cnw.started :
                                                   g.pool = "dc" /\ g.by = c
                                           THEN @.cur ELSE NoItem.dc],
                         !.skips[cnw.dc[c].cur] = @ + 1]
  /\ UNCHANGED << pipeline, dlw, arw, pgw, pcw, qw >>

\* go download(base, dl, wg); time.Sleep(sleep); back to the range receive.
DcGo(c) ==
  /\ cnw.pc = "run"
  /\ cnw.dc[c].pc = "go"
  /\ cnw' = [cnw EXCEPT !.dc[c].pc = "recv",
                         !.started = @ \cup {[pool |-> "dc", by |-> c,
                                              arg |-> cnw.dc[c].cur]}]
  /\ UNCHANGED << pipeline, dlw, arw, pgw, pcw, qw >>

\* The goroutine of a go download(...) begins to run: one git clone for its
\* descriptor.
DhStart(h) ==
  /\ cnw.pc = "run"
  /\ h \in cnw.started /\ h.pool = "dc"
  /\ cnw' = [cnw EXCEPT !.started = @ \ {h},
                         !.dc[h.by] = AfterStart(h),
                         !.clones[GoArg(h)] = @ + 1]
  /\ UNCHANGED << pipeline, dlw, arw, pgw, pcw, qw >>

CnNext ==
  \/ CnMainSend
  \/ \E c \in Consumers : QcRecv(c)
  \/ \E c \in Consumers : QcGo(c)
  \/ \E h \in [pool : {"qc"}, by : Consumers, arg : 1..Len(CnArgs)] :
       QhStart(h)
  \/ \E r \in [tok : 1..Len(CnArgs), sent : 0..(MaxRepos - 1)] : QhSend(r)
  \/ \E c \in Consumers : DcRecv(c)
  \/ \E c \in Consumers : DcSkip(c)
  \/ \E c \in Consumers : DcGo(c)
  \/ \E h \in [pool : {"dc"}, by : Consumers, arg : CnIds] : DhStart(h)

CnSpec == CnInit /\ [][CnNext]_vars

\* Nothing is left to do: main has sent every query, both channels are
\* empty, no consumer holds an item and no goroutine is still to run.
Quiescent ==
  /\ cnw.mainSent = Len(args)
  /\ cnw.queries = << >> /\ cnw.dls = << >>
  /\ cnw.started = {} /\ cnw.running = {}
  /\ \A c \in Consumers : cnw.qc[c].pc = "recv" /\ cnw.dc[c].pc = "recv"

\* C11: every query is received by at most one query consumer and every
\* descriptor by at most one download consumer; an item is at any moment in
\* exactly one place (the channel, one consumer's hands, one goroutine not
\* yet running, or handled), no query is handed to two discovery tasks and
\* no descriptor to two clones or to a clone and a skip; an excluded
\* descriptor is never cloned; and when nothing is left to do every query
\* was received once and had one discovery task, and every descriptor was
\* received once and, unless excluded, cloned exactly once.
C11_ExactlyOneConsumer ==
  LET \* How often value x stands in channel q.
      InChan(q, x) == Cardinality({ n \in 1..Len(q) : q[n] = x })
      \* The consumers of a pool that hold x between their receive and
      \* their go statement or skip.
      Holders(pool, x) ==
        { c \in Consumers :
            cnw[pool][c].pc \in {"go", "skip"} /\ cnw[pool][c].cur = x }
      \* The goroutines started for x by a pool's consumers that have not
      \* begun to run.
      Started(pool, x) == { h \in cnw.started : h.pool = pool /\ h.arg = x }
  IN
  /\ \A i \in 1..Len(CnArgs) :
       /\ cnw.qrecv[i] <= 1 /\ cnw.qcalls[i] <= 1
       /\ Cardinality(Holders("qc", i)) <= 1
       /\ InChan(cnw.queries, i) + Cardinality(Holders("qc", i))
            + Cardinality(Started("qc", i)) + cnw.qcalls[i]
            = IF i <= cnw.mainSent THEN 1 ELSE 0
       /\ Quiescent => (cnw.qrecv[i] = 1 /\ cnw.qcalls[i] = 1)
  /\ \A id \in CnIds :
       /\ cnw.drecv[id] <= 1
       /\ Cardinality(Holders("dc", id)) <= 1
       /\ InChan(cnw.dls, id) + Cardinality(Holders("dc", id))
            + Cardinality(Started("dc", id)) + cnw.clones[id] + cnw.skips[id]
            <= 1
       /\ FullName(id) \in excluded => cnw.clones[id] = 0
       /\ FullName(id) \notin excluded => cnw.skips[id] = 0
       /\ Quiescent =>
            /\ cnw.drecv[id] = 1
            /\ cnw.clones[id] = IF FullName(id) \in excluded THEN 0 ELSE 1
            /\ cnw.skips[id] = IF FullName(id) \in excluded THEN 1 ELSE 0

\* C11 witness: for the owner with two repositories and the one repository
\* token, with nothing excluded, there were exactly three descriptors, each
\* received once, and three clones, one for each; nothing is left to do.
C11_Witness ==
  /\ Quiescent
  /\ excluded = {}
  /\ Cardinality(CnIds) = 3
  /\ \A id \in CnIds : cnw.clones[id] = 1 /\ cnw.drecv[id] = 1
  /\ \A i \in 1..Len(CnArgs) : cnw.qcalls[i] = 1 /\ cnw.qrecv[i] = 1

====
